---- MODULE Spec2Model ----
(***************************************************************************)
(* The yaht game engine (crates/yaht-common): dice, scoring, scorecards,   *)
(* the turn state machine and the game state machine, as a state machine   *)
(* whose actions are the public operations of GameState; and the server    *)
(* (crates/yaht-server): rooms, the room registry, the connection registry *)
(* and the handlers of the lobby messages.                                 *)
(***************************************************************************)
EXTENDS Integers, Sequences, FiniteSets, TLC

VARIABLES game, last, okScores, state, uuids, tasks

\* the server's variables: its shared state, the ids drawn so far and the
\* tasks of the accepted sockets
server == <<state, uuids, tasks>>

vars == <<game, last, okScores, state, uuids, tasks>>

(***************************************************************************)
(* Bounds of the exploration (not program constants).                      *)
(***************************************************************************)
\* free play stops after this many successful score_category calls
MaxScores == 3
\* cap on the yahtzee bonus counter in the guards
MaxBonus == 2
\* connections a server run accepts; also its max_connections
MaxConnections == 3
\* rooms a server run creates
MaxRooms == 1
\* in full games, turns (counted by successful scores) with a free outcome
FullVary == 1
\* successful ScoreCategory messages a server run with play handles
MaxTurns == 1
\* rooms, and successful ScoreCategory messages, of a server run in which a
\* connection may open or enter a room while it is in another one
TwoRooms == 2
\* sockets the listener accepts when the tasks are followed step by step;
\* the server is then started with a max_connections of at most that
MaxSockets == 2

(***************************************************************************)
(* Program constants.                                                      *)
(***************************************************************************)
NUM_DICE == 5
MAX_ROLLS == 3
UPPER_BONUS_THRESHOLD == 63
UPPER_BONUS_VALUE == 35
YAHTZEE_BONUS_VALUE == 100
TOTAL_ROUNDS == 13
MIN_PLAYERS == 2
MAX_PLAYERS == 6
U8 == 256
U16 == 65536

\* Option<T>: None is the empty tuple, Some(x) the one-element tuple
None == <<>>
Some(x) == <<x>>
is_some(o) == Len(o) = 1
is_none(o) == Len(o) = 0
unwrap(o) == o[1]

\* Result<T, E>
Ok(v) == [ok |-> TRUE, val |-> v, err |-> "none"]
Err(e) == [ok |-> FALSE, val |-> 0, err |-> e]

(***************************************************************************)
(* scoring.rs                                                              *)
(***************************************************************************)
ALL == <<"Ones", "Twos", "Threes", "Fours", "Fives", "Sixes",
         "ThreeOfAKind", "FourOfAKind", "FullHouse", "SmallStraight",
         "LargeStraight", "Yahtzee", "Chance">>

UPPER == <<"Ones", "Twos", "Threes", "Fours", "Fives", "Sixes">>

Category == {ALL[i] : i \in 1..Len(ALL)}

is_upper(c) == c \in {"Ones", "Twos", "Threes", "Fours", "Fives", "Sixes"}

count_value(dice, val) == Cardinality({i \in 1..NUM_DICE : dice[i] = val}) * val

RECURSIVE SumSeq(_)
SumSeq(s) == IF s = <<>> THEN 0 ELSE s[1] + SumSeq(Tail(s))

sum(dice) == SumSeq(dice)

value_counts(dice) ==
    [v \in 0..6 |-> Cardinality({i \in 1..NUM_DICE : dice[i] = v})]

has_n_of_a_kind(dice, n) == \E v \in 0..6 : value_counts(dice)[v] >= n

\* faulty variant: at least three and at least two of a face
is_full_house_at_least(dice) ==
    LET counts == value_counts(dice)
        has_three == \E v \in 0..6 : counts[v] >= 3
        has_two == \E v \in 0..6 : counts[v] >= 2
    IN  has_three /\ has_two

is_full_house(dice) ==
    LET counts == value_counts(dice)
        has_three == \E v \in 0..6 : counts[v] = 3
        has_two == \E v \in 0..6 : counts[v] = 2
    IN  has_three /\ has_two

has_small_straight(dice) ==
    LET counts == value_counts(dice)
    IN  \E start \in 1..3 : \A i \in start..(start + 3) : counts[i] >= 1

has_large_straight(dice) ==
    LET counts == value_counts(dice)
    IN  \E start \in 1..2 : \A i \in start..(start + 4) : counts[i] >= 1

is_yahtzee(dice) == has_n_of_a_kind(dice, 5)

compute_score(category, dice) ==
    CASE category = "Ones" -> count_value(dice, 1)
      [] category = "Twos" -> count_value(dice, 2)
      [] category = "Threes" -> count_value(dice, 3)
      [] category = "Fours" -> count_value(dice, 4)
      [] category = "Fives" -> count_value(dice, 5)
      [] category = "Sixes" -> count_value(dice, 6)
      [] category = "ThreeOfAKind" ->
            IF has_n_of_a_kind(dice, 3) THEN sum(dice) ELSE 0
      [] category = "FourOfAKind" ->
            IF has_n_of_a_kind(dice, 4) THEN sum(dice) ELSE 0
      [] category = "FullHouse" -> IF is_full_house(dice) THEN 25 ELSE 0
      [] category = "SmallStraight" ->
            IF has_small_straight(dice) THEN 30 ELSE 0
      [] category = "LargeStraight" ->
            IF has_large_straight(dice) THEN 40 ELSE 0
      [] category = "Yahtzee" -> IF is_yahtzee(dice) THEN 50 ELSE 0
      [] category = "Chance" -> sum(dice)

\* the joker table: Full House and the straights score their fixed value
\* when joker_active, every other category scores as compute_score
compute_score_joker(category, dice, joker_active) ==
    IF joker_active /\ category = "FullHouse" THEN 25
    ELSE IF joker_active /\ category = "SmallStraight" THEN 30
    ELSE IF joker_active /\ category = "LargeStraight" THEN 40
    ELSE compute_score(category, dice)

(***************************************************************************)
(* dice.rs                                                                 *)
(***************************************************************************)
Die_new == [value |-> 1, held |-> FALSE]

\* faulty variant: the held flag is not consulted
Die_roll_ignores_held(die, face) == [die EXCEPT !.value = face]

\* rng.gen_range(1..=6) is the face the generator draws for this die
Die_roll(die, face) ==
    IF ~die.held THEN [die EXCEPT !.value = face] ELSE die

DiceSet_new == [i \in 1..NUM_DICE |-> Die_new]

\* draws[i] is the face drawn for die i, used only when die i is rolled
roll_unheld(dice, draws) == [i \in 1..NUM_DICE |-> Die_roll(dice[i], draws[i])]

set_held(dice, held) == [i \in 1..NUM_DICE |-> [dice[i] EXCEPT !.held = held[i]]]

release_all(dice) == [i \in 1..NUM_DICE |-> [dice[i] EXCEPT !.held = FALSE]]

values(dice) == [i \in 1..NUM_DICE |-> dice[i].value]

(***************************************************************************)
(* player.rs                                                               *)
(***************************************************************************)
\* scores is the HashMap<Category, u16>: a function on the recorded keys
Scorecard_new == [scores |-> <<>>, yahtzee_bonus_count |-> 0]

is_category_used(sc, category) == category \in DOMAIN sc.scores

\* faulty variant: a recorded category is overwritten instead of rejected
record_overwrites(sc, category, score) ==
    [scorecard |->
        [sc EXCEPT !.scores =
            [c \in (DOMAIN sc.scores) \cup {category} |->
                IF c = category THEN score ELSE sc.scores[c]]],
     result |-> Ok(0)]

record(sc, category, score) ==
    IF is_category_used(sc, category)
    THEN [scorecard |-> sc, result |-> Err("CategoryAlreadyUsed")]
    ELSE [scorecard |->
            [sc EXCEPT !.scores =
                [c \in (DOMAIN sc.scores) \cup {category} |->
                    IF c = category THEN score ELSE sc.scores[c]]],
          result |-> Ok(0)]

\* u8 counter: += 1 wraps at 256 in a release build
add_yahtzee_bonus(sc) ==
    [sc EXCEPT !.yahtzee_bonus_count = (sc.yahtzee_bonus_count + 1) % U8]

RECURSIVE SumOver(_, _)
SumOver(cats, scores) ==
    IF cats = <<>> THEN 0
    ELSE (IF cats[1] \in DOMAIN scores THEN scores[cats[1]] ELSE 0)
         + SumOver(Tail(cats), scores)

upper_subtotal(sc) == SumOver(UPPER, sc.scores)

upper_bonus(sc) ==
    IF upper_subtotal(sc) >= UPPER_BONUS_THRESHOLD THEN UPPER_BONUS_VALUE ELSE 0

lower_total(sc) ==
    SumOver(SelectSeq(ALL, LAMBDA c : ~is_upper(c)), sc.scores)

yahtzee_bonus_total(sc) == sc.yahtzee_bonus_count * YAHTZEE_BONUS_VALUE

grand_total(sc) ==
    upper_subtotal(sc) + upper_bonus(sc) + lower_total(sc)
        + yahtzee_bonus_total(sc)

is_complete(sc) == Cardinality(DOMAIN sc.scores) = 13

available_categories(sc) ==
    SelectSeq(ALL, LAMBDA c : ~is_category_used(sc, c))

Player_new(id) == [id |-> id, scorecard |-> Scorecard_new, connected |-> TRUE]

(***************************************************************************)
(* game.rs: the turn state machine                                         *)
(***************************************************************************)
\* TurnPhase; Rolling carries its own copy of the roll count
WaitingForRoll == [tag |-> "WaitingForRoll", rolls_used |-> 0]
Rolling(n) == [tag |-> "Rolling", rolls_used |-> n]
MustScore == [tag |-> "MustScore", rolls_used |-> 0]
Done == [tag |-> "Done", rolls_used |-> 0]

TurnState_new(player_id) ==
    [player_id |-> player_id, phase |-> WaitingForRoll,
     dice |-> DiceSet_new, rolls_used |-> 0]

\* faulty variant: the phase is not consulted and the bound is off by one
can_roll_no_phase(t) == t.rolls_used <= MAX_ROLLS

can_roll(t) ==
    /\ t.rolls_used < MAX_ROLLS
    /\ t.phase.tag \in {"WaitingForRoll", "Rolling"}

\* faulty variant: holding is also allowed once the rolls are used up
can_hold_must_score(t) == t.phase.tag \in {"Rolling", "MustScore"}

can_hold(t) == t.phase.tag = "Rolling"

\* faulty variant: scoring needs all three rolls
can_score_must_score_only(t) == t.phase.tag = "MustScore"

can_score(t) == t.phase.tag \in {"Rolling", "MustScore"}

\* faulty variant: Rolling carries the count from before the roll
TurnState_roll_stale_count(t, draws) ==
    IF ~can_roll(t) THEN [turn |-> t, result |-> Err("CannotRoll")]
    ELSE
      LET released == IF t.rolls_used = 0 THEN release_all(t.dice) ELSE t.dice
          rolled == roll_unheld(released, draws)
          used == t.rolls_used + 1
      IN  [turn |-> [t EXCEPT !.dice = rolled,
                              !.rolls_used = used,
                              !.phase = IF used >= MAX_ROLLS THEN MustScore
                                        ELSE Rolling(t.rolls_used)],
           result |-> Ok(0)]

TurnState_roll(t, draws) ==
    IF ~can_roll(t) THEN [turn |-> t, result |-> Err("CannotRoll")]
    ELSE
      LET released == IF t.rolls_used = 0 THEN release_all(t.dice) ELSE t.dice
          rolled == roll_unheld(released, draws)
          used == t.rolls_used + 1
      IN  [turn |-> [t EXCEPT !.dice = rolled,
                              !.rolls_used = used,
                              !.phase = IF used >= MAX_ROLLS THEN MustScore
                                        ELSE Rolling(used)],
           result |-> Ok(0)]

TurnState_hold(t, held) ==
    IF ~can_hold(t) THEN [turn |-> t, result |-> Err("CannotHold")]
    ELSE [turn |-> [t EXCEPT !.dice = set_held(t.dice, held)],
          result |-> Ok(0)]

(***************************************************************************)
(* game.rs: the game state machine.  Every operation returns the game      *)
(* after the call and the call's Result.                                   *)
(***************************************************************************)
GameState_new(players) ==
    [phase |-> "Lobby", players |-> players, current_player_index |-> 0,
     turn |-> None, round |-> 0, total_rounds |-> TOTAL_ROUNDS]

\* indices are 0-based in the source, sequences 1-based here
current_player(g) == g.players[g.current_player_index + 1]

\* faulty variant: compares with the first player instead of the current one
is_current_player_first(g, player_id) == g.players[1].id = player_id

is_current_player(g, player_id) == current_player(g).id = player_id

\* faulty variant: the upper limit is off by one
start_six_too_many(g) ==
    IF Len(g.players) < MIN_PLAYERS
    THEN [game |-> g, result |-> Err("NotEnoughPlayers")]
    ELSE IF Len(g.players) >= MAX_PLAYERS
    THEN [game |-> g, result |-> Err("TooManyPlayers")]
    ELSE [game |-> [g EXCEPT !.phase = "Playing", !.round = 1,
                             !.current_player_index = 0,
                             !.turn = Some(TurnState_new(g.players[1].id))],
          result |-> Ok(0)]

start(g) ==
    IF Len(g.players) < MIN_PLAYERS
    THEN [game |-> g, result |-> Err("NotEnoughPlayers")]
    ELSE IF Len(g.players) > MAX_PLAYERS
    THEN [game |-> g, result |-> Err("TooManyPlayers")]
    ELSE [game |-> [g EXCEPT !.phase = "Playing", !.round = 1,
                             !.current_player_index = 0,
                             !.turn = Some(TurnState_new(g.players[1].id))],
          result |-> Ok(0)]

start_solo(g) ==
    IF Len(g.players) = 0
    THEN [game |-> g, result |-> Err("NotEnoughPlayers")]
    ELSE IF Len(g.players) > MAX_PLAYERS
    THEN [game |-> g, result |-> Err("TooManyPlayers")]
    ELSE [game |-> [g EXCEPT !.phase = "Playing", !.round = 1,
                             !.current_player_index = 0,
                             !.turn = Some(TurnState_new(g.players[1].id))],
          result |-> Ok(0)]

\* faulty variant: only a game that has not started is refused
roll_dice_lobby_only(g, player_id, draws) ==
    IF g.phase = "Lobby"
    THEN [game |-> g, result |-> Err("GameNotInProgress")]
    ELSE IF ~is_current_player(g, player_id)
    THEN [game |-> g, result |-> Err("NotYourTurn")]
    ELSE IF is_none(g.turn)
    THEN [game |-> g, result |-> Err("NoActiveTurn")]
    ELSE LET r == TurnState_roll(unwrap(g.turn), draws)
         IN  [game |-> [g EXCEPT !.turn = Some(r.turn)], result |-> r.result]

roll_dice(g, player_id, draws) ==
    IF g.phase # "Playing"
    THEN [game |-> g, result |-> Err("GameNotInProgress")]
    ELSE IF ~is_current_player(g, player_id)
    THEN [game |-> g, result |-> Err("NotYourTurn")]
    ELSE IF is_none(g.turn)
    THEN [game |-> g, result |-> Err("NoActiveTurn")]
    ELSE LET r == TurnState_roll(unwrap(g.turn), draws)
         IN  [game |-> [g EXCEPT !.turn = Some(r.turn)], result |-> r.result]

hold_dice(g, player_id, held) ==
    IF g.phase # "Playing"
    THEN [game |-> g, result |-> Err("GameNotInProgress")]
    ELSE IF ~is_current_player(g, player_id)
    THEN [game |-> g, result |-> Err("NotYourTurn")]
    ELSE IF is_none(g.turn)
    THEN [game |-> g, result |-> Err("NoActiveTurn")]
    ELSE LET r == TurnState_hold(unwrap(g.turn), held)
         IN  [game |-> [g EXCEPT !.turn = Some(r.turn)], result |-> r.result]

\* faulty variant: the game finishes when the last round begins
advance_turn_finish_early(g) ==
    LET next == g.current_player_index + 1
        wrap == next >= Len(g.players)
        idx == IF wrap THEN 0 ELSE next
        rnd == IF wrap THEN g.round + 1 ELSE g.round
    IN  IF rnd >= g.total_rounds
        THEN [g EXCEPT !.current_player_index = idx, !.round = rnd,
                       !.phase = "Finished", !.turn = None]
        ELSE [g EXCEPT !.current_player_index = idx, !.round = rnd,
                       !.turn = Some(TurnState_new(g.players[idx + 1].id))]

\* faulty variant: the round is counted per turn, not per wrap of the index
advance_turn_round_per_turn(g) ==
    LET next == g.current_player_index + 1
        wrap == next >= Len(g.players)
        idx == IF wrap THEN 0 ELSE next
        rnd == g.round + 1
    IN  IF rnd > g.total_rounds
        THEN [g EXCEPT !.current_player_index = idx, !.round = rnd,
                       !.phase = "Finished", !.turn = None]
        ELSE [g EXCEPT !.current_player_index = idx, !.round = rnd,
                       !.turn = Some(TurnState_new(g.players[idx + 1].id))]

\* faulty variant: the index skips a player
advance_turn_skips_player(g) ==
    LET next == g.current_player_index + 2
        wrap == next >= Len(g.players)
        idx == IF wrap THEN 0 ELSE next
        rnd == IF wrap THEN g.round + 1 ELSE g.round
    IN  IF rnd > g.total_rounds
        THEN [g EXCEPT !.current_player_index = idx, !.round = rnd,
                       !.phase = "Finished", !.turn = None]
        ELSE [g EXCEPT !.current_player_index = idx, !.round = rnd,
                       !.turn = Some(TurnState_new(g.players[idx + 1].id))]

advance_turn(g) ==
    LET next == g.current_player_index + 1
        wrap == next >= Len(g.players)
        idx == IF wrap THEN 0 ELSE next
        rnd == IF wrap THEN g.round + 1 ELSE g.round
    IN  IF rnd > g.total_rounds
        THEN [g EXCEPT !.current_player_index = idx, !.round = rnd,
                       !.phase = "Finished", !.turn = None]
        ELSE [g EXCEPT !.current_player_index = idx, !.round = rnd,
                       !.turn = Some(TurnState_new(g.players[idx + 1].id))]

\* faulty variant: the joker is active whatever the Yahtzee box holds
score_category_any_yahtzee(g, player_id, category) ==
    IF g.phase # "Playing"
    THEN [game |-> g, result |-> Err("GameNotInProgress")]
    ELSE IF ~is_current_player(g, player_id)
    THEN [game |-> g, result |-> Err("NotYourTurn")]
    ELSE IF is_none(g.turn)
    THEN [game |-> g, result |-> Err("NoActiveTurn")]
    ELSE IF ~can_score(unwrap(g.turn))
    THEN [game |-> g, result |-> Err("CannotScore")]
    ELSE
      LET me == g.current_player_index + 1
          dice_values == values(unwrap(g.turn).dice)
          yahtzee_now == compute_score("Yahtzee", dice_values) = 50
          card == g.players[me].scorecard
          joker_active ==
              /\ yahtzee_now
              /\ "Yahtzee" \in DOMAIN card.scores
          \* the bonus is added before the category is recorded
          card1 == IF joker_active THEN add_yahtzee_bonus(card) ELSE card
          score == compute_score_joker(category, dice_values, joker_active)
          rec == record(card1, category, score)
          g1 == [g EXCEPT !.players[me].scorecard = rec.scorecard]
      IN  IF ~rec.result.ok
          THEN [game |-> g1, result |-> Err("CategoryAlreadyScored")]
          ELSE [game |-> advance_turn(g1), result |-> Ok(score)]

\* faulty variant: a score of zero is not written to the scorecard
score_category_skips_zero(g, player_id, category) ==
    IF g.phase # "Playing"
    THEN [game |-> g, result |-> Err("GameNotInProgress")]
    ELSE IF ~is_current_player(g, player_id)
    THEN [game |-> g, result |-> Err("NotYourTurn")]
    ELSE IF is_none(g.turn)
    THEN [game |-> g, result |-> Err("NoActiveTurn")]
    ELSE IF ~can_score(unwrap(g.turn))
    THEN [game |-> g, result |-> Err("CannotScore")]
    ELSE
      LET me == g.current_player_index + 1
          dice_values == values(unwrap(g.turn).dice)
          yahtzee_now == compute_score("Yahtzee", dice_values) = 50
          card == g.players[me].scorecard
          joker_active ==
              /\ yahtzee_now
              /\ "Yahtzee" \in DOMAIN card.scores
              /\ card.scores["Yahtzee"] = 50
          \* the bonus is added before the category is recorded
          card1 == IF joker_active THEN add_yahtzee_bonus(card) ELSE card
          score == compute_score_joker(category, dice_values, joker_active)
          rec == IF score = 0
                 THEN [scorecard |-> card1, result |-> Ok(0)]
                 ELSE record(card1, category, score)
          g1 == [g EXCEPT !.players[me].scorecard = rec.scorecard]
      IN  IF ~rec.result.ok
          THEN [game |-> g1, result |-> Err("CategoryAlreadyScored")]
          ELSE [game |-> advance_turn(g1), result |-> Ok(score)]

score_category(g, player_id, category) ==
    IF g.phase # "Playing"
    THEN [game |-> g, result |-> Err("GameNotInProgress")]
    ELSE IF ~is_current_player(g, player_id)
    THEN [game |-> g, result |-> Err("NotYourTurn")]
    ELSE IF is_none(g.turn)
    THEN [game |-> g, result |-> Err("NoActiveTurn")]
    ELSE IF ~can_score(unwrap(g.turn))
    THEN [game |-> g, result |-> Err("CannotScore")]
    ELSE
      LET me == g.current_player_index + 1
          dice_values == values(unwrap(g.turn).dice)
          yahtzee_now == compute_score("Yahtzee", dice_values) = 50
          card == g.players[me].scorecard
          joker_active ==
              /\ yahtzee_now
              /\ "Yahtzee" \in DOMAIN card.scores
              /\ card.scores["Yahtzee"] = 50
          \* the bonus is added before the category is recorded
          card1 == IF joker_active THEN add_yahtzee_bonus(card) ELSE card
          score == compute_score_joker(category, dice_values, joker_active)
          rec == record(card1, category, score)
          g1 == [g EXCEPT !.players[me].scorecard = rec.scorecard]
      IN  IF ~rec.result.ok
          THEN [game |-> g1, result |-> Err("CategoryAlreadyScored")]
          ELSE [game |-> advance_turn(g1), result |-> Ok(score)]

\* faulty variant: the phase is not consulted
winner_any_phase(g) ==
    IF Len(g.players) = 0 THEN None
    ELSE LET best == CHOOSE i \in 1..Len(g.players) :
                        \A j \in 1..Len(g.players) :
                           \/ grand_total(g.players[j].scorecard)
                                < grand_total(g.players[i].scorecard)
                           \/ /\ grand_total(g.players[j].scorecard)
                                   = grand_total(g.players[i].scorecard)
                              /\ j <= i
         IN  Some(g.players[best])

\* faulty variant: the first of several equally maximum elements
winner_first_max(g) ==
    IF g.phase # "Finished" \/ Len(g.players) = 0 THEN None
    ELSE LET best == CHOOSE i \in 1..Len(g.players) :
                        \A j \in 1..Len(g.players) :
                           \/ grand_total(g.players[j].scorecard)
                                < grand_total(g.players[i].scorecard)
                           \/ /\ grand_total(g.players[j].scorecard)
                                   = grand_total(g.players[i].scorecard)
                              /\ j >= i
         IN  Some(g.players[best])

\* Iterator::max_by_key returns the last of several equally maximum elements
winner(g) ==
    IF g.phase # "Finished" \/ Len(g.players) = 0 THEN None
    ELSE LET best == CHOOSE i \in 1..Len(g.players) :
                        \A j \in 1..Len(g.players) :
                           \/ grand_total(g.players[j].scorecard)
                                < grand_total(g.players[i].scorecard)
                           \/ /\ grand_total(g.players[j].scorecard)
                                   = grand_total(g.players[i].scorecard)
                              /\ j <= i
         IN  Some(g.players[best])

(***************************************************************************)
(* room.rs: a room and its operations.  A room's name plays no part and is *)
(* left out; a password is a value or None.                                *)
(***************************************************************************)
contains(list, x) == \E k \in 1..Len(list) : list[k] = x

\* Vec::retain(|id| id != x)
retain_not(list, x) == SelectSeq(list, LAMBDA id : id # x)

clamp(x, lo, hi) == IF x < lo THEN lo ELSE IF x > hi THEN hi ELSE x

Room_new(id, max_players, host_id, password) ==
    [id |-> id, max_players |-> clamp(max_players, 2, 6),
     host_id |-> host_id, player_ids |-> <<host_id>>,
     spectator_ids |-> <<>>, game |-> None, password |-> password]

check_password(room, provided) ==
    IF is_none(room.password) THEN TRUE
    ELSE is_some(provided) /\ unwrap(provided) = unwrap(room.password)

\* faulty variant: the capacity test is off by one
add_player_over_capacity(room, player_id) ==
    IF (Len(room.player_ids) % U8) > room.max_players
    THEN [room |-> room, result |-> Err("TooManyPlayers")]
    ELSE IF is_some(room.game)
    THEN [room |-> room, result |-> Err("GameNotInProgress")]
    ELSE [room |-> IF contains(room.player_ids, player_id) THEN room
                   ELSE [room EXCEPT !.player_ids = Append(@, player_id)],
          result |-> Ok(0)]

\* faulty variant: a room with a game still takes players
add_player_during_game(room, player_id) ==
    IF (Len(room.player_ids) % U8) >= room.max_players
    THEN [room |-> room, result |-> Err("TooManyPlayers")]
    ELSE [room |-> IF contains(room.player_ids, player_id) THEN room
                   ELSE [room EXCEPT !.player_ids = Append(@, player_id)],
          result |-> Ok(0)]

\* faulty variant: an id already in the list is pushed again
add_player_duplicates(room, player_id) ==
    IF (Len(room.player_ids) % U8) >= room.max_players
    THEN [room |-> room, result |-> Err("TooManyPlayers")]
    ELSE IF is_some(room.game)
    THEN [room |-> room, result |-> Err("GameNotInProgress")]
    ELSE [room |-> [room EXCEPT !.player_ids = Append(@, player_id)],
          result |-> Ok(0)]

add_player(room, player_id) ==
    IF (Len(room.player_ids) % U8) >= room.max_players
    THEN [room |-> room, result |-> Err("TooManyPlayers")]
    ELSE IF is_some(room.game)
    THEN [room |-> room, result |-> Err("GameNotInProgress")]
    ELSE [room |-> IF contains(room.player_ids, player_id) THEN room
                   ELSE [room EXCEPT !.player_ids = Append(@, player_id)],
          result |-> Ok(0)]

add_spectator(room, spectator_id) ==
    IF contains(room.spectator_ids, spectator_id) THEN room
    ELSE [room EXCEPT !.spectator_ids = Append(@, spectator_id)]

\* faulty variant: the host is not reassigned
remove_player_keeps_host(room, player_id) ==
    [room EXCEPT
       !.player_ids = retain_not(room.player_ids, player_id),
       !.spectator_ids = retain_not(room.spectator_ids, player_id)]

remove_player(room, player_id) ==
    LET left == retain_not(room.player_ids, player_id)
    IN  [room EXCEPT
           !.player_ids = left,
           !.spectator_ids = retain_not(room.spectator_ids, player_id),
           !.host_id = IF room.host_id = player_id /\ left # <<>>
                       THEN left[1] ELSE room.host_id]

\* faulty variant: the spectators are not looked at
is_empty_of_players(room) == room.player_ids = <<>>

is_empty(room) == room.player_ids = <<>> /\ room.spectator_ids = <<>>

start_game(room, players) ==
    LET r == start(GameState_new(players))
    IN  IF r.result.ok
        THEN [room |-> [room EXCEPT !.game = Some(r.game)],
              result |-> Ok(0)]
        ELSE [room |-> room, result |-> r.result]

all_member_ids(room) == room.player_ids \o room.spectator_ids

(***************************************************************************)
(* lobby.rs: the room registry, a map from room id to room.                *)
(***************************************************************************)
LobbyManager_new == [rooms |-> <<>>]

\* HashMap::insert
insert(map, key, value) ==
    [k \in (DOMAIN map) \cup {key} |-> IF k = key THEN value ELSE map[k]]

\* HashMap::remove
remove(map, key) == [k \in (DOMAIN map) \ {key} |-> map[k]]

create_room(lobby, id, max_players, host_id, password) ==
    [lobby EXCEPT
       !.rooms = insert(@, id, Room_new(id, max_players, host_id, password))]

remove_room(lobby, id) == [lobby EXCEPT !.rooms = remove(@, id)]

prune_empty_rooms(lobby) ==
    [lobby EXCEPT
       !.rooms = [k \in {r \in DOMAIN @ : ~is_empty(@[r])} |-> @[k]]]

(***************************************************************************)
(* connection.rs, server.rs: the connection registry and the shared state. *)
(* tx is the connection's outbound queue, drained by its writer task.      *)
(***************************************************************************)
ConnectionHandle(player_id) ==
    [player_id |-> player_id, tx |-> <<>>, room_id |-> None,
     is_spectator |-> FALSE]

ServerState_new ==
    [lobby |-> LobbyManager_new, connections |-> <<>>,
     max_connections |-> MaxConnections]

\* Uuid::new_v4 never repeats: the n-th player id and the n-th room id drawn
NoUuids == [player |-> 0, room |-> 0]

\* server messages: a type, an error code and an id
Msg(type, id) == [type |-> type, code |-> "", id |-> id]

Error(code) == [type |-> "Error", code |-> code, id |-> 0]

\* handler.rs: send_to_player and broadcast_to_list on the registry
send_to_player_at_head(conns, player_id, msg) ==
    IF player_id \in DOMAIN conns
    THEN [conns EXCEPT ![player_id].tx = <<msg>> \o @]
    ELSE conns

send_to_player(conns, player_id, msg) ==
    IF player_id \in DOMAIN conns
    THEN [conns EXCEPT ![player_id].tx = Append(@, msg)]
    ELSE conns

RECURSIVE broadcast_to_list(_, _, _, _)
broadcast_to_list(conns, member_ids, msg, exclude) ==
    IF member_ids = <<>> THEN conns
    ELSE LET id == Head(member_ids)
             sent == IF Some(id) = exclude THEN conns
                     ELSE send_to_player(conns, id, msg)
         IN  broadcast_to_list(sent, Tail(member_ids), msg, exclude)

(***************************************************************************)
(* The inputs of the operations.                                           *)
(***************************************************************************)
T == TRUE
F == FALSE

\* faces the generator draws for the five dice in one roll
FiveOfAKind == <<5, 5, 5, 5, 5>>

RollOutcomes == {FiveOfAKind, <<3, 4, 2, 6, 5>>}

\* the masks a client sends with HoldDice
HoldMasks == {<<T, F, T, F, F>>, <<F, F, F, F, F>>}

\* the categories a client tries to score in free play
TriedCats == {"Yahtzee", "FullHouse", "Chance"}

\* the ids that call: the current player, the player after it, and an id
\* that belongs to no player of the game
Stranger == MAX_PLAYERS + 2

Callers(g) ==
    {Stranger} \cup
    (IF Len(g.players) = 0 THEN {}
     ELSE {g.players[i].id :
              i \in {g.current_player_index + 1,
                     ((g.current_player_index + 1) % Len(g.players)) + 1}})

Call(op, player_id, result) ==
    [op |-> op, player_id |-> player_id, result |-> result]

BonusBelowCap(g) ==
    \A i \in 1..Len(g.players) :
        g.players[i].scorecard.yahtzee_bonus_count < MaxBonus

(***************************************************************************)
(* Free play: every operation with every input, for the first MaxScores    *)
(* successful score_category calls of a game.                              *)
(***************************************************************************)
Init ==
    /\ \E n \in 0..(MAX_PLAYERS + 1) :
          game = GameState_new([i \in 1..n |-> Player_new(i)])
    /\ last = Call("new", Stranger, Ok(0))
    /\ okScores = 0
    /\ state = ServerState_new
    /\ uuids = NoUuids
    /\ tasks = <<>>

\* Room::start_game and run_solo start a game they have just constructed
Start ==
    /\ game.phase = "Lobby"
    /\ LET r == start(game)
       IN  /\ game' = r.game
           /\ last' = Call("start", Stranger, r.result)
    /\ UNCHANGED <<okScores, server>>

StartSolo ==
    /\ game.phase = "Lobby"
    /\ LET r == start_solo(game)
       IN  /\ game' = r.game
           /\ last' = Call("start_solo", Stranger, r.result)
    /\ UNCHANGED <<okScores, server>>

DoRoll(player_id, draws) ==
    LET r == roll_dice(game, player_id, draws)
    IN  /\ game' = r.game
        /\ last' = Call("roll_dice", player_id, r.result)
        /\ UNCHANGED <<okScores, server>>

DoHold(player_id, held) ==
    LET r == hold_dice(game, player_id, held)
    IN  /\ game' = r.game
        /\ last' = Call("hold_dice", player_id, r.result)
        /\ UNCHANGED <<okScores, server>>

DoScore(player_id, category) ==
    LET r == score_category(game, player_id, category)
    IN  /\ game' = r.game
        /\ last' = Call("score_category", player_id, r.result)
        /\ okScores' = IF r.result.ok THEN okScores + 1 ELSE okScores
        /\ UNCHANGED server

RollDice ==
    /\ okScores < MaxScores
    /\ \E player_id \in Callers(game), draws \in RollOutcomes :
          DoRoll(player_id, draws)

HoldDice ==
    /\ okScores < MaxScores
    /\ \E player_id \in Callers(game), held \in HoldMasks :
          DoHold(player_id, held)

ScoreCategory ==
    /\ okScores < MaxScores
    /\ BonusBelowCap(game)
    /\ \E player_id \in Callers(game), category \in TriedCats :
          DoScore(player_id, category)

Next == Start \/ StartSolo \/ RollDice \/ HoldDice \/ ScoreCategory

Spec == Init /\ [][Next]_vars

(***************************************************************************)
(* Full games: the current player rolls one to three times, may hold, and  *)
(* scores the first category it has not used, as the tests of game.rs do;  *)
(* the first FullVary turns draw any outcome and score any tried category. *)
(***************************************************************************)
Current(g) == {g.players[i].id : i \in {g.current_player_index + 1}
                                        \cap (1..Len(g.players))}

FirstAvailable(g) ==
    LET av == available_categories(current_player(g).scorecard)
    IN  IF av = <<>> THEN {} ELSE {av[1]}

FullRoll ==
    /\ game.phase = "Playing"
    /\ \E player_id \in Current(game),
          draws \in IF okScores < FullVary THEN RollOutcomes
                    ELSE {FiveOfAKind} :
          DoRoll(player_id, draws)

FullHold ==
    /\ game.phase = "Playing"
    /\ \E player_id \in Current(game), held \in HoldMasks :
          DoHold(player_id, held)

FullScore ==
    /\ game.phase = "Playing"
    /\ \E player_id \in Current(game),
          category \in FirstAvailable(game)
                       \cup (IF okScores < FullVary THEN TriedCats ELSE {}) :
          DoScore(player_id, category)

\* the ScoreCategory handler and the solo client ask for the winner once the
\* game is finished
GameOver ==
    /\ game.phase = "Finished"
    /\ is_some(winner(game))
    /\ last' = Call("winner", unwrap(winner(game)).id, Ok(0))
    /\ UNCHANGED <<game, okScores, server>>

NextFull ==
    Start \/ StartSolo \/ FullRoll \/ FullHold \/ FullScore \/ GameOver

SpecFull == Init /\ [][NextFull]_vars

(***************************************************************************)
(* Solo play that keeps rolling five of a kind: the player scores Yahtzee  *)
(* or Chance as often as it likes, with no cap on the bonus counter.       *)
(***************************************************************************)
BonusCats == {"Yahtzee", "Chance"}

InitSolo ==
    /\ game = GameState_new(<<Player_new(1)>>)
    /\ last = Call("new", Stranger, Ok(0))
    /\ okScores = 0
    /\ state = ServerState_new
    /\ uuids = NoUuids
    /\ tasks = <<>>

\* five equal dice while the current player's Yahtzee box holds 50
JokerCase(g) ==
    LET d == values(unwrap(g.turn).dice)
        card == current_player(g).scorecard
    IN  /\ \A k \in 1..NUM_DICE : d[k] = d[1]
        /\ "Yahtzee" \in DOMAIN card.scores
        /\ card.scores["Yahtzee"] = 50

BonusRoll ==
    /\ game.phase = "Playing"
    /\ \E player_id \in Current(game) : DoRoll(player_id, FiveOfAKind)

BonusScore ==
    /\ game.phase = "Playing"
    /\ \E player_id \in Current(game), category \in BonusCats :
          DoScore(player_id, category)

\* with overflow checks (a debug build) the `+= 1` of add_yahtzee_bonus
\* panics at 255 before anything is written; without them it wraps, which
\* is what add_yahtzee_bonus computes
BonusPanics ==
    /\ game.phase = "Playing"
    /\ is_some(game.turn)
    /\ can_score(unwrap(game.turn))
    /\ JokerCase(game)
    /\ current_player(game).scorecard.yahtzee_bonus_count = U8 - 1
    /\ last' = Call("score_category", current_player(game).id,
                    Err("panicked"))
    /\ UNCHANGED <<game, okScores, server>>

NextBonus == StartSolo \/ BonusRoll \/ BonusScore \/ BonusPanics

SpecBonus == InitSolo /\ [][NextBonus]_vars

(***************************************************************************)
(* Solo play over the whole scorecard: the player rolls any outcome and    *)
(* scores any of the thirteen categories, for MaxScores scores.            *)
(***************************************************************************)
JokerRoll ==
    /\ game.phase = "Playing"
    /\ okScores < MaxScores
    /\ \E player_id \in Current(game), draws \in RollOutcomes :
          DoRoll(player_id, draws)

JokerScore ==
    /\ game.phase = "Playing"
    /\ okScores < MaxScores
    /\ BonusBelowCap(game)
    /\ \E player_id \in Current(game), category \in Category :
          DoScore(player_id, category)

NextJoker == StartSolo \/ JokerRoll \/ JokerScore

SpecJoker == InitSolo /\ [][NextJoker]_vars

(***************************************************************************)
(* Every outcome of a first roll: the five dice of a solo game take every  *)
(* quintuple of faces, and the scoreboard computes the potential score of  *)
(* the rolled dice with compute_score.                                     *)
(***************************************************************************)
\* Die::roll draws from 1..=6
Faces == 1..6

AllOutcomes == [1..NUM_DICE -> Faces]

PreviewCats == {"FullHouse"}

FirstRoll ==
    /\ game.phase = "Playing"
    /\ is_some(game.turn)
    /\ unwrap(game.turn).rolls_used = 0
    /\ \E player_id \in Current(game), draws \in AllOutcomes :
          DoRoll(player_id, draws)

PotentialScore ==
    /\ game.phase = "Playing"
    /\ is_some(game.turn)
    /\ unwrap(game.turn).rolls_used > 0
    /\ \E category \in PreviewCats :
          last' = Call("compute_score", current_player(game).id,
                       Ok(compute_score(category,
                                        values(unwrap(game.turn).dice))))
    /\ UNCHANGED <<game, okScores, server>>

NextDice == StartSolo \/ FirstRoll \/ PotentialScore

SpecDice == InitSolo /\ [][NextDice]_vars

(***************************************************************************)
(* handler.rs: what each client message does to the shared state.  A       *)
(* handler takes its lock guards, changes the state, and calls             *)
(* send_to_player and broadcast_to_list; it returns the state after its    *)
(* changes, its sends in order, each with the guards the handler still     *)
(* holds at that call, and the outcome it reported.                        *)
(***************************************************************************)
LobbyWrite == "lobby.write"

ConnsRead == "connections.read"

ConnsWrite == "connections.write"

Send(to, msg, exclude, held) ==
    [to |-> to, msg |-> msg, exclude |-> exclude, held |-> held]

Handled(st, sends, result) ==
    [state |-> st, sends |-> sends, result |-> result]

Reply(st, player_id, code, held) ==
    Handled(st, <<Send(<<player_id>>, Error(code), None, held)>>, Err(code))

\* a handler that returns Ok(()) without a word
Silent(st) == Handled(st, <<>>, Err("none"))

game_error_to_protocol(e) ==
    IF e = "NotYourTurn" THEN "NotYourTurn"
    ELSE IF e = "CategoryAlreadyScored" THEN "CategoryAlreadyScored"
    ELSE "InvalidAction"

handle_CreateRoom(st, room_id, player_id, max_players, password) ==
    LET lobby == create_room(st.lobby, room_id, max_players, player_id,
                             password)
        conns == [st.connections EXCEPT ![player_id].room_id = Some(room_id),
                                        ![player_id].is_spectator = FALSE]
    IN  Handled([st EXCEPT !.lobby = lobby, !.connections = conns],
                <<Send(<<player_id>>, Msg("RoomJoined", room_id), None,
                       {LobbyWrite, ConnsRead})>>,
                Ok(room_id))

handle_JoinRoom(st, player_id, room_id, password) ==
    IF room_id \notin DOMAIN st.lobby.rooms
    THEN Reply(st, player_id, "RoomNotFound", {LobbyWrite})
    ELSE IF ~check_password(st.lobby.rooms[room_id], password)
    THEN Reply(st, player_id, "WrongPassword", {LobbyWrite})
    ELSE
      LET r == add_player(st.lobby.rooms[room_id], player_id)
          conns == [st.connections EXCEPT
                      ![player_id].room_id = Some(room_id),
                      ![player_id].is_spectator = FALSE]
      IN  IF ~r.result.ok
          THEN Reply(st, player_id, "RoomFull", {LobbyWrite})
          ELSE Handled([st EXCEPT !.lobby.rooms[room_id] = r.room,
                                  !.connections = conns],
                       <<Send(<<player_id>>, Msg("RoomJoined", room_id),
                              None, {}),
                         Send(all_member_ids(r.room),
                              Msg("PlayerJoined", player_id),
                              Some(player_id), {})>>,
                       Ok(room_id))

handle_SpectateRoom(st, player_id, room_id) ==
    IF room_id \notin DOMAIN st.lobby.rooms
    THEN Reply(st, player_id, "RoomNotFound", {LobbyWrite})
    ELSE
      LET room == add_spectator(st.lobby.rooms[room_id], player_id)
          conns == [st.connections EXCEPT
                      ![player_id].room_id = Some(room_id),
                      ![player_id].is_spectator = TRUE]
          joined == <<Send(<<player_id>>, Msg("RoomJoined", room_id),
                           None, {})>>
          shown == IF is_some(room.game)
                   THEN <<Send(<<player_id>>, Msg("GameState", room_id),
                               None, {})>>
                   ELSE <<>>
      IN  Handled([st EXCEPT !.lobby.rooms[room_id] = room,
                             !.connections = conns],
                  joined \o shown \o
                  <<Send(all_member_ids(room),
                         Msg("SpectatorJoined", player_id),
                         Some(player_id), {})>>,
                  Ok(room_id))

\* the guard of connections.write() taken at the end is alive when
\* send_to_player is called for RoomLeft, and so is the lobby guard
handle_leave_room(st, player_id) ==
    LET c == st.connections[player_id]
        room_id == unwrap(c.room_id)
        room == remove_player(st.lobby.rooms[room_id], player_id)
        found == room_id \in DOMAIN st.lobby.rooms
        lobby == IF ~found THEN st.lobby
                 ELSE IF is_empty(room) THEN remove_room(st.lobby, room_id)
                 ELSE [st.lobby EXCEPT !.rooms[room_id] = room]
        told == IF ~found THEN <<>>
                ELSE <<Send(all_member_ids(room),
                            Msg(IF c.is_spectator THEN "SpectatorLeft"
                                ELSE "PlayerLeft", player_id),
                            None, {LobbyWrite})>>
        cleared == [st.connections EXCEPT ![player_id].room_id = None,
                                          ![player_id].is_spectator = FALSE]
    IN  IF is_none(c.room_id) THEN Handled(st, <<>>, Ok(0))
        ELSE Handled([st EXCEPT !.lobby = lobby, !.connections = cleared],
                     told \o <<Send(<<player_id>>, Msg("RoomLeft", 0), None,
                                    {LobbyWrite, ConnsWrite})>>,
                     Ok(0))

\* send_to_player and broadcast_to_list begin with connections.read(),
\* which never returns to a caller that holds the write guard itself
Waits(send) == ConnsWrite \in send.held

\* the sends of a handler from the first one that waits for ever
RECURSIVE Stuck(_)
Stuck(sends) ==
    IF sends = <<>> \/ Waits(Head(sends)) THEN sends ELSE Stuck(Tail(sends))

\* the registry after the sends of a handler that get through
RECURSIVE Deliver(_, _)
Deliver(conns, sends) ==
    IF sends = <<>> \/ Waits(Head(sends)) THEN conns
    ELSE Deliver(broadcast_to_list(conns, Head(sends).to, Head(sends).msg,
                                   Head(sends).exclude),
                 Tail(sends))

\* handle_leave_room, then (once it has returned) the removal of the
\* connection and the pruning of the rooms
handle_disconnect(st, player_id) ==
    LET left == handle_leave_room(st, player_id)
        st1 == [left.state EXCEPT !.connections = Deliver(@, left.sends)]
        st2 == [st1 EXCEPT !.connections = remove(@, player_id)]
    IN  IF Stuck(left.sends) # <<>> THEN left
        ELSE Handled([st2 EXCEPT !.lobby = prune_empty_rooms(@)], <<>>,
                     Ok(0))

\* faulty variant: any member of the room may start the game
handle_StartGame_by_any_member(st, player_id) ==
    LET c == st.connections[player_id]
        room_id == unwrap(c.room_id)
        room == st.lobby.rooms[room_id]
        present == SelectSeq(room.player_ids,
                             LAMBDA id : id \in DOMAIN st.connections)
        players == [k \in 1..Len(present) |-> Player_new(present[k])]
        r == start_game(room, players)
    IN  IF is_none(c.room_id) \/ room_id \notin DOMAIN st.lobby.rooms
        THEN Silent(st)
        ELSE IF Len(room.player_ids) < 2
        THEN Reply(st, player_id, "NotEnoughPlayers",
                   {LobbyWrite, ConnsRead})
        ELSE IF ~r.result.ok
        THEN Reply(st, player_id, "InternalError", {LobbyWrite, ConnsRead})
        ELSE Handled([st EXCEPT !.lobby.rooms[room_id] = r.room],
                     <<Send(all_member_ids(room), Msg("GameStarted", room_id),
                            None, {})>>,
                     Ok(room_id))

handle_StartGame(st, player_id) ==
    LET c == st.connections[player_id]
        room_id == unwrap(c.room_id)
        room == st.lobby.rooms[room_id]
        present == SelectSeq(room.player_ids,
                             LAMBDA id : id \in DOMAIN st.connections)
        players == [k \in 1..Len(present) |-> Player_new(present[k])]
        r == start_game(room, players)
    IN  IF is_none(c.room_id) \/ room_id \notin DOMAIN st.lobby.rooms
        THEN Silent(st)
        ELSE IF room.host_id # player_id
        THEN Reply(st, player_id, "InvalidAction", {LobbyWrite, ConnsRead})
        ELSE IF Len(room.player_ids) < 2
        THEN Reply(st, player_id, "NotEnoughPlayers",
                   {LobbyWrite, ConnsRead})
        ELSE IF ~r.result.ok
        THEN Reply(st, player_id, "InternalError", {LobbyWrite, ConnsRead})
        ELSE Handled([st EXCEPT !.lobby.rooms[room_id] = r.room],
                     <<Send(all_member_ids(room), Msg("GameStarted", room_id),
                            None, {})>>,
                     Ok(room_id))

handle_RollDice(st, player_id, draws) ==
    LET c == st.connections[player_id]
        room_id == unwrap(c.room_id)
        room == st.lobby.rooms[room_id]
        r == roll_dice(unwrap(room.game), player_id, draws)
        rolled == [st EXCEPT !.lobby.rooms[room_id].game = Some(r.game)]
    IN  IF is_none(c.room_id) THEN Silent(st)
        ELSE IF c.is_spectator
        THEN Reply(st, player_id, "InvalidAction", {LobbyWrite, ConnsRead})
        ELSE IF room_id \notin DOMAIN st.lobby.rooms THEN Silent(st)
        ELSE IF is_none(room.game) THEN Silent(st)
        ELSE IF ~r.result.ok
        THEN Reply(rolled, player_id, game_error_to_protocol(r.result.err),
                   {})
        ELSE Handled(rolled,
                     <<Send(all_member_ids(room),
                            Msg("DiceRolled", player_id), None, {})>>,
                     Ok(0))

handle_HoldDice(st, player_id, held) ==
    LET c == st.connections[player_id]
        room_id == unwrap(c.room_id)
        room == st.lobby.rooms[room_id]
        r == hold_dice(unwrap(room.game), player_id, held)
        kept == [st EXCEPT !.lobby.rooms[room_id].game = Some(r.game)]
    IN  IF is_none(c.room_id) THEN Silent(st)
        ELSE IF room_id \notin DOMAIN st.lobby.rooms THEN Silent(st)
        ELSE IF is_none(room.game) THEN Silent(st)
        ELSE IF ~r.result.ok
        THEN Reply(kept, player_id, game_error_to_protocol(r.result.err), {})
        ELSE Handled(kept,
                     <<Send(all_member_ids(room),
                            Msg("DiceHeld", player_id), None, {})>>,
                     Ok(0))

\* faulty variant: the room is the first one that lists the sender as a
\* player, not the one its connection names
handle_ScoreCategory_by_membership(st, player_id, category) ==
    LET c == st.connections[player_id]
        mine == {r \in DOMAIN st.lobby.rooms :
                    contains(st.lobby.rooms[r].player_ids, player_id)}
        room_id == IF mine = {} THEN unwrap(c.room_id)
                   ELSE CHOOSE r \in mine : \A o \in mine : r <= o
        room == st.lobby.rooms[room_id]
        before == unwrap(room.game)
        prev_player_id == current_player(before).id
        r == score_category(before, player_id, category)
        scored == [st EXCEPT !.lobby.rooms[room_id].game = Some(r.game)]
        winner_id == IF is_some(winner(r.game)) THEN unwrap(winner(r.game)).id
                     ELSE prev_player_id
        closing == IF r.game.phase = "Finished"
                   THEN Msg("GameOver", winner_id)
                   ELSE Msg("TurnStarted", current_player(r.game).id)
        members == all_member_ids(room)
    IN  IF is_none(c.room_id) THEN Silent(st)
        ELSE IF room_id \notin DOMAIN st.lobby.rooms THEN Silent(st)
        ELSE IF is_none(room.game) THEN Silent(st)
        ELSE IF ~is_current_player(before, player_id)
        THEN Reply(st, player_id, game_error_to_protocol("NotYourTurn"), {})
        ELSE IF ~r.result.ok
        THEN Reply(scored, player_id, game_error_to_protocol(r.result.err),
                   {})
        ELSE Handled(scored,
                     <<Send(members, Msg("CategoryScored", prev_player_id),
                            None, {}),
                       Send(members, Msg("TurnEnded", prev_player_id),
                            None, {}),
                       Send(members, closing, None, {})>>,
                     Ok(r.result.val))

handle_ScoreCategory(st, player_id, category) ==
    LET c == st.connections[player_id]
        room_id == unwrap(c.room_id)
        room == st.lobby.rooms[room_id]
        before == unwrap(room.game)
        prev_player_id == current_player(before).id
        r == score_category(before, player_id, category)
        scored == [st EXCEPT !.lobby.rooms[room_id].game = Some(r.game)]
        winner_id == IF is_some(winner(r.game)) THEN unwrap(winner(r.game)).id
                     ELSE prev_player_id
        closing == IF r.game.phase = "Finished"
                   THEN Msg("GameOver", winner_id)
                   ELSE Msg("TurnStarted", current_player(r.game).id)
        members == all_member_ids(room)
    IN  IF is_none(c.room_id) THEN Silent(st)
        ELSE IF room_id \notin DOMAIN st.lobby.rooms THEN Silent(st)
        ELSE IF is_none(room.game) THEN Silent(st)
        ELSE IF ~is_current_player(before, player_id)
        THEN Reply(st, player_id, game_error_to_protocol("NotYourTurn"), {})
        ELSE IF ~r.result.ok
        THEN Reply(scored, player_id, game_error_to_protocol(r.result.err),
                   {})
        ELSE Handled(scored,
                     <<Send(members, Msg("CategoryScored", prev_player_id),
                            None, {}),
                       Send(members, Msg("TurnEnded", prev_player_id),
                            None, {}),
                       Send(members, closing, None, {})>>,
                     Ok(r.result.val))

(***************************************************************************)
(* connection.rs: the task of one accepted socket.  pc is where the task   *)
(* is, held the lock guards it holds, sends the calls of send_to_player    *)
(* and broadcast_to_list its handler has still to make, socket the frame   *)
(* written last to its socket.                                             *)
(***************************************************************************)
Task(pc, player_id) ==
    [pc |-> pc, player_id |-> player_id, held |-> {}, sends |-> <<>>,
     socket |-> None]

TaskOf(player_id) ==
    CHOOSE s \in DOMAIN tasks : tasks[s].player_id = Some(player_id)

\* no task holds a guard of the room registry or the connection registry
Free == \A s \in DOMAIN tasks : tasks[s].held = {}

(***************************************************************************)
(* The server: connections arrive, send lobby messages and leave.  Here    *)
(* a handler runs from its first lock to its return, or to the call that   *)
(* never returns, in one step; a client sends its next message once the    *)
(* writer tasks have drained the outbound queues.  What the sockets        *)
(* receive is not followed here.                                           *)
(***************************************************************************)
RoomSizes == {1, 7}

Passwords == {None, Some("pw")}

RoomIds == 1..MaxRooms

Connected == DOMAIN state.connections

Quiet == \A c \in Connected : state.connections[c].tx = <<>>

InitServer ==
    /\ game = GameState_new(<<>>)
    /\ last = Call("new", Stranger, Ok(0))
    /\ okScores = 0
    /\ state = ServerState_new
    /\ uuids = NoUuids
    /\ tasks = <<>>

\* the task of player_id runs a handler: its changes, then its sends up to
\* one that waits for ever, where the task stays with the guards it holds;
\* after the handler has returned the task is at pc
Run(player_id, h, pc) ==
    LET rest == Stuck(h.sends)
    IN  /\ state' = [h.state EXCEPT !.connections = Deliver(@, h.sends)]
        /\ tasks' = [tasks EXCEPT
                       ![TaskOf(player_id)] =
                           [@ EXCEPT
                              !.pc = IF rest = <<>> THEN pc ELSE "send",
                              !.sends = rest,
                              !.held = IF rest = <<>> THEN {}
                                       ELSE Head(rest).held]]

\* server.rs accept loop and the Hello handshake of handle_connection
Hello ==
    /\ Quiet /\ Free
    /\ uuids.player < MaxConnections
    /\ Cardinality(Connected) < state.max_connections
    /\ LET id == uuids.player + 1
       IN  /\ state' = [state EXCEPT
                          !.connections = insert(@, id, ConnectionHandle(id))]
           /\ uuids' = [uuids EXCEPT !.player = id]
           /\ tasks' = Append(tasks, Task("read", Some(id)))
    /\ UNCHANGED <<game, last, okScores>>

DoCreateRoom(player_id, max_players, password) ==
    /\ Run(player_id, handle_CreateRoom(state, uuids.room + 1, player_id,
                                        max_players, password),
           "read")
    /\ uuids' = [uuids EXCEPT !.room = @ + 1]
    /\ UNCHANGED <<game, last, okScores>>

DoJoinRoom(player_id, room_id, password) ==
    /\ Run(player_id, handle_JoinRoom(state, player_id, room_id, password),
           "read")
    /\ UNCHANGED <<game, last, okScores, uuids>>

DoSpectateRoom(player_id, room_id) ==
    /\ Run(player_id, handle_SpectateRoom(state, player_id, room_id),
           "read")
    /\ UNCHANGED <<game, last, okScores, uuids>>

DoLeaveRoom(player_id) ==
    /\ Run(player_id, handle_leave_room(state, player_id),
           "read")
    /\ UNCHANGED <<game, last, okScores, uuids>>

DoStartGame(player_id) ==
    /\ Run(player_id, handle_StartGame(state, player_id),
           "read")
    /\ UNCHANGED <<game, last, okScores, uuids>>

\* the read loop of player_id has ended: cleanup of handle_connection
DoDisconnect(player_id) ==
    /\ Run(player_id, handle_disconnect(state, player_id), "closed")
    /\ UNCHANGED <<game, last, okScores, uuids>>

CreateRoom ==
    /\ Quiet /\ Free
    /\ uuids.room < MaxRooms
    /\ \E player_id \in Connected, max_players \in RoomSizes,
          password \in Passwords :
          DoCreateRoom(player_id, max_players, password)

JoinRoom ==
    /\ Quiet /\ Free
    /\ \E player_id \in Connected, room_id \in RoomIds,
          password \in Passwords :
          DoJoinRoom(player_id, room_id, password)

SpectateRoom ==
    /\ Quiet /\ Free
    /\ \E player_id \in Connected, room_id \in RoomIds :
          DoSpectateRoom(player_id, room_id)

LeaveRoom ==
    /\ Quiet /\ Free
    /\ \E player_id \in Connected : DoLeaveRoom(player_id)

StartGame ==
    /\ Quiet /\ Free
    /\ \E player_id \in Connected : DoStartGame(player_id)

Disconnect ==
    /\ Quiet /\ Free
    /\ \E player_id \in Connected : DoDisconnect(player_id)

\* the writer task of a connection takes the next message off its queue;
\* the writer tasks do not affect each other, so one order is explored
WriteTask ==
    /\ \E c \in Connected :
          /\ state.connections[c].tx # <<>>
          /\ \A b \in Connected : b < c => state.connections[b].tx = <<>>
          /\ state' = [state EXCEPT !.connections[c].tx = Tail(@)]
    /\ UNCHANGED <<game, last, okScores, uuids, tasks>>

NextServer ==
    \/ Hello \/ CreateRoom \/ JoinRoom \/ SpectateRoom \/ LeaveRoom
    \/ StartGame \/ Disconnect \/ WriteTask

SpecServer == InitServer /\ [][NextServer]_vars

(***************************************************************************)
(* The server with play: rooms without password, and the turn messages of  *)
(* every connection, for the first MaxTurns successful ScoreCategory       *)
(* messages of a run.                                                      *)
(***************************************************************************)
\* the categories a client tries to score in a room
PlayCats == {"Chance", "Yahtzee"}

DoRollDice(player_id, draws) ==
    /\ Run(player_id, handle_RollDice(state, player_id, draws), "read")
    /\ UNCHANGED <<game, last, okScores, uuids>>

DoHoldDice(player_id, held) ==
    /\ Run(player_id, handle_HoldDice(state, player_id, held), "read")
    /\ UNCHANGED <<game, last, okScores, uuids>>

DoScoreCategory(player_id, category) ==
    LET h == handle_ScoreCategory(state, player_id, category)
    IN  /\ Run(player_id, h, "read")
        /\ okScores' = IF h.result.ok THEN okScores + 1 ELSE okScores
        /\ UNCHANGED <<game, last, uuids>>

OpenRoom ==
    /\ Quiet /\ Free
    /\ uuids.room < MaxRooms
    /\ \E player_id \in Connected : DoCreateRoom(player_id, 7, None)

EnterRoom ==
    /\ Quiet /\ Free
    /\ \E player_id \in Connected, room_id \in RoomIds :
          DoJoinRoom(player_id, room_id, None)

RollDiceMsg ==
    /\ Quiet /\ Free
    /\ \E player_id \in Connected : DoRollDice(player_id, FiveOfAKind)

HoldDiceMsg ==
    /\ Quiet /\ Free
    /\ \E player_id \in Connected :
          DoHoldDice(player_id, <<T, F, T, F, F>>)

ScoreCategoryMsg ==
    /\ Quiet /\ Free
    /\ okScores < MaxTurns
    /\ \E player_id \in Connected, category \in PlayCats :
          DoScoreCategory(player_id, category)

NextPlay ==
    \/ Hello \/ OpenRoom \/ EnterRoom \/ SpectateRoom \/ LeaveRoom
    \/ StartGame \/ RollDiceMsg \/ HoldDiceMsg \/ ScoreCategoryMsg
    \/ Disconnect \/ WriteTask

SpecPlay == InitServer /\ [][NextPlay]_vars

(***************************************************************************)
(* The tasks of the server, step by step: the listener accepts sockets,    *)
(* each accepted socket has a task that reads the first frame, registers,  *)
(* reads messages and cleans up, and a writer task that drains its queue.  *)
(* A handler takes its guards and changes the state in one step and makes  *)
(* each of its sends in a step of its own; a guard is taken only when no   *)
(* other task holds one that excludes it.                                  *)
(***************************************************************************)
Holders(guard) == {s \in DOMAIN tasks : guard \in tasks[s].held}

Welcome(id) == Msg("Welcome", id)

HandshakeError == Msg("HandshakeError", 0)

\* the first frames a client sends: Hello, another message, or none at all
FirstFrames == {"Hello", "Ping", "Closed"}

\* the messages a registered client sends here
Requests ==
    {[type |-> t, room_id |-> 0] :
        t \in {"CreateRoom", "LeaveRoom", "StartGame", "RollDice",
               "ScoreCategory"}}
    \cup {[type |-> "JoinRoom", room_id |-> r] : r \in RoomIds}

handle_message(st, player_id, msg, fresh_room_id) ==
    CASE msg.type = "CreateRoom" ->
           handle_CreateRoom(st, fresh_room_id, player_id, 7, None)
      [] msg.type = "JoinRoom" ->
           handle_JoinRoom(st, player_id, msg.room_id, None)
      [] msg.type = "LeaveRoom" -> handle_leave_room(st, player_id)
      [] msg.type = "StartGame" -> handle_StartGame(st, player_id)
      [] msg.type = "RollDice" ->
           handle_RollDice(st, player_id, FiveOfAKind)
      [] msg.type = "ScoreCategory" ->
           handle_ScoreCategory(st, player_id, "Chance")

InitTasks ==
    /\ game = GameState_new(<<>>)
    /\ last = Call("new", Stranger, Ok(0))
    /\ okScores = 0
    /\ \E max_connections \in 1..MaxSockets :
          state = [ServerState_new EXCEPT
                      !.max_connections = max_connections]
    /\ uuids = NoUuids
    /\ tasks = <<>>

\* server.rs: the listener accepts a socket, reads the size of the registry
\* and drops the socket or spawns its task
Accept ==
    /\ Len(tasks) < MaxSockets
    /\ Holders(ConnsWrite) = {}
    /\ tasks' = Append(tasks,
                       Task(IF Cardinality(Connected) >= state.max_connections
                            THEN "rejected" ELSE "handshake", None))
    /\ UNCHANGED <<game, last, okScores, state, uuids>>

\* faulty variant: any first frame is taken for a Hello
FirstFrame_any_message(s, frame, sent) ==
    /\ tasks[s].pc = "handshake"
    /\ IF frame = "Closed"
       THEN /\ tasks' = [tasks EXCEPT ![s].pc = "closed"]
            /\ UNCHANGED uuids
       ELSE LET id == uuids.player + 1
            IN  /\ uuids' = [uuids EXCEPT !.player = id]
                /\ tasks' = [tasks EXCEPT
                               ![s].pc = IF sent THEN "welcomed"
                                         ELSE "closed",
                               ![s].player_id = Some(id),
                               ![s].socket = IF sent THEN Some(Welcome(id))
                                             ELSE @]
    /\ UNCHANGED <<game, last, okScores, state>>

\* connection.rs: the first frame; sent tells whether the reply could be
\* written to the socket
FirstFrame(s, frame, sent) ==
    /\ tasks[s].pc = "handshake"
    /\ IF frame = "Closed"
       THEN /\ tasks' = [tasks EXCEPT ![s].pc = "closed"]
            /\ UNCHANGED uuids
       ELSE IF frame = "Hello"
       THEN LET id == uuids.player + 1
            IN  /\ uuids' = [uuids EXCEPT !.player = id]
                /\ tasks' = [tasks EXCEPT
                               ![s].pc = IF sent THEN "welcomed"
                                         ELSE "closed",
                               ![s].player_id = Some(id),
                               ![s].socket = IF sent THEN Some(Welcome(id))
                                             ELSE @]
       ELSE /\ tasks' = [tasks EXCEPT
                           ![s].pc = "closed",
                           ![s].socket = IF sent THEN Some(HandshakeError)
                                         ELSE @]
            /\ UNCHANGED uuids
    /\ UNCHANGED <<game, last, okScores, state>>

\* connection.rs: the queue is made and the connection is registered
Register(s) ==
    /\ tasks[s].pc = "welcomed"
    /\ Holders(ConnsWrite) = {} /\ Holders(ConnsRead) = {}
    /\ LET id == unwrap(tasks[s].player_id)
       IN  state' = [state EXCEPT
                       !.connections = insert(@, id, ConnectionHandle(id))]
    /\ tasks' = [tasks EXCEPT ![s].pc = "read"]
    /\ UNCHANGED <<game, last, okScores, uuids>>

\* a handler starts: it takes its guards and makes its changes
Begin(s, h, pc) ==
    /\ Free
    /\ state' = h.state
    /\ tasks' = [tasks EXCEPT
                   ![s].pc = IF h.sends = <<>> THEN pc
                             ELSE IF pc = "read" THEN "send" ELSE "leaving",
                   ![s].sends = h.sends,
                   ![s].held = IF h.sends = <<>> THEN {}
                               ELSE Head(h.sends).held]

\* the reader loop takes a message and calls its handler
Receive(s, msg) ==
    /\ tasks[s].pc = "read"
    /\ Quiet
    /\ msg.type = "CreateRoom" => uuids.room < MaxRooms
    /\ msg.type = "ScoreCategory" => okScores < MaxTurns
    /\ LET h == handle_message(state, unwrap(tasks[s].player_id), msg,
                               uuids.room + 1)
       IN  /\ Begin(s, h, "read")
           /\ okScores' = IF msg.type = "ScoreCategory" /\ h.result.ok
                          THEN okScores + 1 ELSE okScores
    /\ uuids' = IF msg.type = "CreateRoom"
                THEN [uuids EXCEPT !.room = @ + 1] ELSE uuids
    /\ UNCHANGED <<game, last>>

\* the next send_to_player or broadcast_to_list of a handler: it takes
\* connections.read(), enqueues, and the handler goes on with the guards it
\* holds at its next send, or returns
SendNext(s) ==
    /\ tasks[s].pc \in {"send", "leaving"}
    /\ Holders(ConnsWrite) = {}
    /\ LET send == Head(tasks[s].sends)
           rest == Tail(tasks[s].sends)
       IN  /\ state' = [state EXCEPT
                          !.connections =
                              broadcast_to_list(@, send.to, send.msg,
                                                send.exclude)]
           /\ tasks' = [tasks EXCEPT
                          ![s].sends = rest,
                          ![s].held = IF rest = <<>> THEN {}
                                      ELSE Head(rest).held,
                          ![s].pc = IF rest # <<>> THEN @
                                    ELSE IF @ = "send" THEN "read"
                                    ELSE "remove"]
    /\ UNCHANGED <<game, last, okScores, uuids>>

\* the read loop ends: end of stream or a read error
ReadEnds(s) ==
    /\ tasks[s].pc = "read"
    /\ tasks' = [tasks EXCEPT ![s].pc = "cleanup"]
    /\ UNCHANGED <<game, last, okScores, state, uuids>>

\* handle_disconnect: handle_leave_room ...
LeaveFirst(s) ==
    /\ tasks[s].pc = "cleanup"
    /\ Begin(s, handle_leave_room(state, unwrap(tasks[s].player_id)),
             "remove")
    /\ UNCHANGED <<game, last, okScores, uuids>>

\* ... then the connection is removed ...
Remove(s) ==
    /\ tasks[s].pc = "remove"
    /\ Holders(ConnsWrite) = {} /\ Holders(ConnsRead) = {}
    /\ state' = [state EXCEPT
                    !.connections = remove(@, unwrap(tasks[s].player_id))]
    /\ tasks' = [tasks EXCEPT ![s].pc = "prune"]
    /\ UNCHANGED <<game, last, okScores, uuids>>

\* ... then the rooms are pruned, and the writer task is aborted
Prune(s) ==
    /\ tasks[s].pc = "prune"
    /\ Holders(LobbyWrite) = {}
    /\ state' = [state EXCEPT !.lobby = prune_empty_rooms(@)]
    /\ tasks' = [tasks EXCEPT ![s].pc = "closed"]
    /\ UNCHANGED <<game, last, okScores, uuids>>

\* the writer task of a registered connection takes the next message off
\* its queue and writes it to the socket
Writer(s) ==
    /\ is_some(tasks[s].player_id)
    /\ unwrap(tasks[s].player_id) \in Connected
    /\ LET id == unwrap(tasks[s].player_id)
       IN  /\ state.connections[id].tx # <<>>
           /\ tasks' = [tasks EXCEPT
                          ![s].socket = Some(Head(state.connections[id].tx))]
           /\ state' = [state EXCEPT !.connections[id].tx = Tail(@)]
    /\ UNCHANGED <<game, last, okScores, uuids>>

Handshake ==
    \E s \in DOMAIN tasks, frame \in FirstFrames, sent \in BOOLEAN :
       FirstFrame(s, frame, sent)

Registers == \E s \in DOMAIN tasks : Register(s)

Receives == \E s \in DOMAIN tasks, msg \in Requests : Receive(s, msg)

Sends == \E s \in DOMAIN tasks : SendNext(s)

ReadLoopEnds == \E s \in DOMAIN tasks : ReadEnds(s)

CleanupLeaves == \E s \in DOMAIN tasks : LeaveFirst(s)

CleanupRemoves == \E s \in DOMAIN tasks : Remove(s)

CleanupPrunes == \E s \in DOMAIN tasks : Prune(s)

Writes == \E s \in DOMAIN tasks : Writer(s)

NextTasks ==
    \/ Accept \/ Handshake \/ Registers \/ Receives \/ Sends
    \/ ReadLoopEnds \/ CleanupLeaves \/ CleanupRemoves \/ CleanupPrunes
    \/ Writes

SpecTasks == InitTasks /\ [][NextTasks]_vars

\* The runtime polls every task whose await can complete, and the locks
\* serve their waiters in turn: a cleanup step, a send and a write that can
\* be taken again and again is taken
Cleanup(s) ==
    /\ s \in DOMAIN tasks
    /\ LeaveFirst(s) \/ SendNext(s) \/ Remove(s) \/ Prune(s)

SpecTasksFair ==
    /\ SpecTasks
    /\ \A s \in 1..MaxSockets :
          /\ SF_vars(Cleanup(s))
          /\ WF_vars(s \in DOMAIN tasks /\ Writer(s))

(***************************************************************************)
(* Properties.                                                             *)
(***************************************************************************)
Turn == unwrap(game.turn)

NumPlayers == Len(game.players)

AllComplete ==
    \A i \in 1..NumPlayers : is_complete(game.players[i].scorecard)

IsCall(l, op) == l.op = op

ByCurrent(l) ==
    /\ game.phase = "Playing"
    /\ l.player_id = current_player(game).id

\* C1: in every reachable game, phase Playing implies a turn is present, and
\* phase Finished implies no turn is present and every player's scorecard
\* has all 13 categories recorded.
C1_PhaseTurnScorecards ==
    /\ game.phase = "Playing" => is_some(game.turn)
    /\ game.phase = "Finished" => is_none(game.turn) /\ AllComplete

C1_Witness ==
    /\ game.phase = "Finished"
    /\ NumPlayers = 2
    /\ is_none(game.turn)
    /\ AllComplete

\* C2: a score_category call that returns an error leaves the whole game
\* (scorecards with their yahtzee_bonus_count, dice, turn phase, current
\* player index, round) as it was before the call.
C2_ScoreErrorMutatesNothing ==
    [][(IsCall(last', "score_category") /\ ~last'.result.ok) => game' = game]_vars

\* C3: a game of N in 2..6 players is Finished exactly when 13*N
\* score_category calls have succeeded, is Playing before that, and once
\* Finished every scorecard is complete and winner() is defined.
C3_FinishedAfterAllScores ==
    (game.phase # "Lobby" /\ NumPlayers \in 2..6) =>
        /\ okScores <= 13 * NumPlayers
        /\ game.phase = "Finished" <=> okScores = 13 * NumPlayers
        /\ game.phase = "Playing" <=> okScores < 13 * NumPlayers
        /\ game.phase = "Finished" => AllComplete /\ is_some(winner(game))

C3_Witness ==
    /\ game.phase = "Finished"
    /\ NumPlayers = 6
    /\ okScores = 78
    /\ is_some(winner(game))

\* C4: a successful score_category moves the current player index one step
\* in the player order, wrapping to 0 after the last player; the round grows
\* by exactly 1 when the index wraps and is unchanged otherwise; no other
\* call of a started game changes index or round.
C4_TurnOrderAndRound ==
    [][/\ (IsCall(last', "score_category") /\ last'.result.ok) =>
            /\ game'.current_player_index
                 = (game.current_player_index + 1) % NumPlayers
            /\ game'.round
                 = game.round
                   + (IF game.current_player_index + 1 = NumPlayers
                      THEN 1 ELSE 0)
            /\ \A i \in 1..NumPlayers : game'.players[i].id = game.players[i].id
            /\ Len(game'.players) = NumPlayers
       /\ (last'.op \in {"roll_dice", "hold_dice", "score_category"}
             /\ ~(IsCall(last', "score_category") /\ last'.result.ok)) =>
            /\ game'.current_player_index = game.current_player_index
            /\ game'.round = game.round
      ]_vars

C4_Witness ==
    /\ IsCall(last, "score_category")
    /\ last.result.ok
    /\ NumPlayers = 3
    /\ game.current_player_index = 0
    /\ game.round = 2

\* C5: at most 3 rolls succeed in a turn: a successful roll adds one to
\* rolls_used, never beyond 3, the third one puts the turn in MustScore, and a
\* roll by the current player with 3 rolls used fails with CannotRoll and
\* changes nothing.
C5_AtMostThreeRolls ==
    [][IsCall(last', "roll_dice") =>
         /\ last'.result.ok =>
               /\ Turn'.rolls_used = Turn.rolls_used + 1
               /\ Turn'.rolls_used <= 3
               /\ Turn'.rolls_used = 3 <=> Turn'.phase = MustScore
         /\ (ByCurrent(last') /\ Turn.rolls_used >= 3) =>
               /\ last'.result = Err("CannotRoll")
               /\ game' = game
      ]_vars

C5_Witness ==
    /\ IsCall(last, "roll_dice")
    /\ last.result = Err("CannotRoll")
    /\ Turn.rolls_used = 3
    /\ Turn.phase = MustScore

HeldFlags(g) == [i \in 1..NUM_DICE |-> unwrap(g.turn).dice[i].held]

\* C6: hold_dice by the current player succeeds exactly in turn phase
\* Rolling; in WaitingForRoll and MustScore it fails with CannotHold and
\* changes nothing; when it succeeds the five held flags equal the given mask
\* and die values, rolls_used and turn phase are unchanged.
C6_HoldOnlyWhileRolling ==
    [][(IsCall(last', "hold_dice") /\ ByCurrent(last')) =>
        \A held \in HoldMasks : DoHold(last'.player_id, held) =>
            /\ last'.result.ok <=> Turn.phase.tag = "Rolling"
            /\ Turn.phase.tag \in {"WaitingForRoll", "MustScore"} =>
                  /\ last'.result = Err("CannotHold")
                  /\ game' = game
            /\ last'.result.ok =>
                  /\ HeldFlags(game') = held
                  /\ values(Turn'.dice) = values(Turn.dice)
                  /\ Turn'.rolls_used = Turn.rolls_used
                  /\ Turn'.phase = Turn.phase
                  /\ game'.players = game.players
      ]_vars

C6_Witness ==
    /\ IsCall(last, "hold_dice")
    /\ last.result = Err("CannotHold")
    /\ Turn.phase = MustScore
    /\ Turn.dice[1].held

\* C7: a successful roll leaves the value of every die that was held before
\* it unchanged, and leaves every held flag unchanged.
C7_HeldDiceKeepValue ==
    [][(IsCall(last', "roll_dice") /\ last'.result.ok) =>
         \A i \in 1..NUM_DICE :
            /\ Turn.dice[i].held => Turn'.dice[i].value = Turn.dice[i].value
            /\ Turn'.dice[i].held = Turn.dice[i].held
      ]_vars

C7_Witness ==
    /\ IsCall(last, "roll_dice")
    /\ last.result.ok
    /\ Turn.rolls_used = 3
    /\ Turn.dice[1].held /\ Turn.dice[3].held /\ ~Turn.dice[2].held
    /\ values(Turn.dice) = <<3, 5, 2, 5, 5>>

\* C8: score_category by the current player fails with CannotScore exactly
\* when no roll was made in the turn; after 1, 2 or 3 rolls (turn phase
\* Rolling or MustScore) scoring an unused category succeeds.
C8_ScoreOnlyAfterRoll ==
    [][(IsCall(last', "score_category") /\ ByCurrent(last')) =>
        \A category \in TriedCats : DoScore(last'.player_id, category) =>
            /\ last'.result = Err("CannotScore") <=> Turn.rolls_used = 0
            /\ Turn.rolls_used \in 1..3
                 <=> Turn.phase.tag \in {"Rolling", "MustScore"}
            /\ (/\ Turn.rolls_used \in 1..3
                /\ ~is_category_used(current_player(game).scorecard, category))
                 => last'.result.ok
      ]_vars

C8_Witness ==
    /\ IsCall(last, "score_category")
    /\ last.result = Err("CannotScore")
    /\ okScores >= 1
    /\ Turn.rolls_used = 0

\* C9: during Playing, roll_dice, hold_dice and score_category called with an
\* id that is not the current player's fail with NotYourTurn and leave the
\* game unchanged.
C9_OnlyCurrentPlayerActs ==
    [][(/\ last'.op \in {"roll_dice", "hold_dice", "score_category"}
        /\ game.phase = "Playing"
        /\ last'.player_id # current_player(game).id) =>
          /\ last'.result = Err("NotYourTurn")
          /\ game' = game
      ]_vars

C9_Witness ==
    /\ IsCall(last, "score_category")
    /\ last.result = Err("NotYourTurn")
    /\ last.player_id # Stranger
    /\ game.phase = "Playing"
    /\ game.current_player_index = 1
    /\ Turn.rolls_used >= 1

\* C10: start() fails with NotEnoughPlayers for fewer than 2 players and with
\* TooManyPlayers for more than 6, leaving phase Lobby, round 0 and no turn;
\* for 2..6 players it succeeds with phase Playing, round 1, current player
\* index 0 and a fresh turn of the first player.
C10_StartPlayerLimits ==
    IsCall(last, "start") =>
        /\ NumPlayers < 2 => last.result = Err("NotEnoughPlayers")
        /\ NumPlayers > 6 => last.result = Err("TooManyPlayers")
        /\ NumPlayers \in 2..6 => last.result.ok
        /\ ~last.result.ok =>
              /\ game.phase = "Lobby"
              /\ game.round = 0
              /\ is_none(game.turn)
        /\ last.result.ok =>
              /\ game.phase = "Playing"
              /\ game.round = 1
              /\ game.current_player_index = 0
              /\ is_some(game.turn)
              /\ Turn.player_id = game.players[1].id
              /\ Turn.phase.tag = "WaitingForRoll"
              /\ Turn.rolls_used = 0
              /\ \A i \in 1..NUM_DICE : ~Turn.dice[i].held

C10_Witness ==
    /\ IsCall(last, "start")
    /\ NumPlayers = 7
    /\ last.result = Err("TooManyPlayers")
    /\ game.phase = "Lobby"

\* scores offered to record
RecordTries == {0, 25, 50}

\* C11: Scorecard.record on a category the scorecard already holds fails and
\* returns the scorecard as it was, for every score offered; and no step of a
\* game changes or removes a score that a player has recorded, so every
\* category of every player is written at most once.
C11_RecordOnce ==
    [][\A i \in 1..NumPlayers :
         LET sc == game.players[i].scorecard
         IN  \A c \in DOMAIN sc.scores :
               /\ \A v \in RecordTries :
                     /\ ~record(sc, c, v).result.ok
                     /\ record(sc, c, v).scorecard = sc
               /\ c \in DOMAIN game'.players[i].scorecard.scores
               /\ game'.players[i].scorecard.scores[c] = sc.scores[c]]_vars

\* a second score_category on Yahtzee was refused and the 50 is still there
C11_Witness ==
    /\ IsCall(last, "score_category")
    /\ last.result = Err("CategoryAlreadyScored")
    /\ \E i \in 1..NumPlayers :
          /\ "Yahtzee" \in DOMAIN game.players[i].scorecard.scores
          /\ game.players[i].scorecard.scores["Yahtzee"] = 50

BonusCount(g, i) == g.players[i].scorecard.yahtzee_bonus_count

\* C12: a successful score_category with five equal dice while the player's
\* Yahtzee box holds 50 raises that player's yahtzee_bonus_count by exactly
\* 1 whichever category is scored, every other successful score_category
\* leaves it as it was, and no step changes the count of a player other than
\* the one scoring.
C12_BonusByOne ==
    [][LET scoring == IsCall(last', "score_category") /\ ByCurrent(last')
           me == game.current_player_index + 1
       IN  /\ (scoring /\ last'.result.ok) =>
                 BonusCount(game', me) =
                     BonusCount(game, me)
                         + (IF JokerCase(game) THEN 1 ELSE 0)
           /\ \A i \in 1..NumPlayers :
                 (~scoring \/ i # me) =>
                     BonusCount(game', i) = BonusCount(game, i)]_vars

\* C13: the score a successful score_category records (and returns) is, with
\* the joker active, 25 for FullHouse, 30 for SmallStraight and 40 for
\* LargeStraight and compute_score's value for every other category; with
\* the joker inactive it is compute_score's value for every category.
C13_JokerScores ==
    [][(IsCall(last', "score_category") /\ ByCurrent(last')
            /\ last'.result.ok) =>
          LET d == values(Turn.dice)
              me == game.current_player_index + 1
              before == game.players[me].scorecard.scores
              after == game'.players[me].scorecard.scores
              category == CHOOSE c \in DOMAIN after : c \notin DOMAIN before
              expected ==
                  IF JokerCase(game) /\ category = "FullHouse" THEN 25
                  ELSE IF JokerCase(game) /\ category = "SmallStraight"
                  THEN 30
                  ELSE IF JokerCase(game) /\ category = "LargeStraight"
                  THEN 40
                  ELSE compute_score(category, d)
          IN  /\ DOMAIN after # DOMAIN before
              /\ last'.result.val = expected
              /\ after[category] = expected]_vars

\* five of a kind was scored as a full house of 25 under the joker
C13_Witness ==
    /\ IsCall(last, "score_category")
    /\ last.result = Ok(25)
    /\ NumPlayers = 1
    /\ "FullHouse" \in DOMAIN game.players[1].scorecard.scores
    /\ game.players[1].scorecard.scores["FullHouse"] = 25
    /\ game.players[1].scorecard.yahtzee_bonus_count = 1

RECURSIVE SumOfBoxes(_, _)
SumOfBoxes(boxes, scores) ==
    IF boxes = {} THEN 0
    ELSE LET c == CHOOSE x \in boxes : TRUE
         IN  scores[c] + SumOfBoxes(boxes \ {c}, scores)

UpperBoxes == {"Ones", "Twos", "Threes", "Fours", "Fives", "Sixes"}

\* C14: for every scorecard reached by play, grand_total is the upper
\* subtotal, plus 35 when that subtotal is at least 63, plus the lower total,
\* plus 100 times the bonus count, and neither the 16-bit total nor the
\* 8-bit bonus counter overflows: the total stays below 65536, the counter
\* never wraps (it never decreases) and its increment never panics.
C14_GrandTotalNoOverflow ==
    [][/\ last'.result # Err("panicked")
       /\ \A i \in 1..NumPlayers :
            LET sc == game'.players[i].scorecard
                upper == SumOfBoxes(DOMAIN sc.scores \cap UpperBoxes,
                                    sc.scores)
                lower == SumOfBoxes(DOMAIN sc.scores \ UpperBoxes,
                                    sc.scores)
                total == upper + (IF upper >= 63 THEN 35 ELSE 0) + lower
                             + 100 * sc.yahtzee_bonus_count
            IN  /\ grand_total(sc) = total
                /\ total < U16
                /\ sc.yahtzee_bonus_count >= BonusCount(game, i)]_vars

Occurrences(d, face) == Cardinality({k \in 1..NUM_DICE : d[k] = face})

\* C15: for every five dice with faces 1..6, compute_score for FullHouse is
\* 25 exactly when one face occurs exactly three times and a different face
\* exactly twice, and 0 otherwise; so five of a kind and two pairs score 0.
C15_FullHouseExact ==
    IsCall(last, "compute_score") =>
        LET d == values(Turn.dice)
            three_and_two ==
                \E a \in Faces : \E b \in Faces \ {a} :
                    Occurrences(d, a) = 3 /\ Occurrences(d, b) = 2
        IN  last.result = Ok(IF three_and_two THEN 25 ELSE 0)

\* the potential full-house score of 2,2,5,5,5 was computed as 25
C15_Witness ==
    /\ IsCall(last, "compute_score")
    /\ values(Turn.dice) = <<2, 2, 5, 5, 5>>
    /\ last.result = Ok(25)

Total(i) == grand_total(game.players[i].scorecard)

TopScorers ==
    {i \in 1..NumPlayers : \A j \in 1..NumPlayers : Total(i) >= Total(j)}

\* C16: winner() returns no player unless the game is Finished, and in a
\* Finished game it returns one of the players, whose grand total is at
\* least every other player's.
C16_WinnerHasMaxTotal ==
    /\ game.phase # "Finished" => is_none(winner(game))
    /\ game.phase = "Finished" =>
          /\ is_some(winner(game))
          /\ \E i \in TopScorers : game.players[i] = unwrap(winner(game))
    /\ IsCall(last, "winner") =>
          /\ game.phase = "Finished"
          /\ \E i \in TopScorers : game.players[i].id = last.player_id

\* the winner of a finished game was asked for and beats another player
C16_Witness ==
    /\ IsCall(last, "winner")
    /\ \E i \in TopScorers : game.players[i].id = last.player_id
    /\ TopScorers # 1..NumPlayers

Rooms == state.lobby.rooms

Tx(player_id) == state.connections[player_id].tx

AtCapacity(room) == Len(room.player_ids) >= room.max_players

\* C18: a room's player list never holds more than max_players ids, and
\* max_players lies in 2..6; when a JoinRoom reaches add_player on a room at
\* capacity, add_player fails with TooManyPlayers, the sender is sent Error
\* RoomFull and no room changes.
C18_PlayerListWithinCapacity ==
    [][/\ \A r \in DOMAIN Rooms' :
            /\ Rooms'[r].max_players \in 2..6
            /\ Len(Rooms'[r].player_ids) <= Rooms'[r].max_players
       /\ \A r \in DOMAIN Rooms :
            AtCapacity(Rooms[r]) =>
               \A p \in Connected, pw \in Passwords :
                  (check_password(Rooms[r], pw) /\ DoJoinRoom(p, r, pw)) =>
                     /\ add_player(Rooms[r], p).result
                            = Err("TooManyPlayers")
                     /\ Rooms' = Rooms
                     /\ Tx(p)' = Append(Tx(p), Error("RoomFull"))]_vars

\* a connection outside a full room was answered RoomFull
C18_Witness ==
    \E r \in DOMAIN Rooms, p \in Connected :
        /\ AtCapacity(Rooms[r])
        /\ ~contains(Rooms[r].player_ids, p)
        /\ is_none(Rooms[r].game)
        /\ Tx(p) = <<Error("RoomFull")>>

\* C19: once a room owns a game, no step adds an id to its player list:
\* every JoinRoom for it is answered with an Error and changes no room;
\* a SpectateRoom for it still puts the sender on its spectator list.
C19_NoJoinOnceGameExists ==
    [][\A r \in DOMAIN Rooms :
         is_some(Rooms[r].game) =>
            /\ r \in DOMAIN Rooms' =>
                  \A k \in 1..Len(Rooms'[r].player_ids) :
                     contains(Rooms[r].player_ids, Rooms'[r].player_ids[k])
            /\ \A p \in Connected, pw \in Passwords :
                  DoJoinRoom(p, r, pw) =>
                     /\ Rooms' = Rooms
                     /\ Tx(p)' # <<>>
                     /\ Tx(p)'[Len(Tx(p)')].type = "Error"
                     /\ check_password(Rooms[r], pw) =>
                           /\ ~add_player(Rooms[r], p).result.ok
                           /\ Tx(p)' = Append(Tx(p), Error("RoomFull"))
            /\ \A p \in Connected :
                  DoSpectateRoom(p, r) =>
                     /\ contains(Rooms'[r].spectator_ids, p)
                     /\ ~contains(Rooms[r].spectator_ids, p) =>
                           Rooms'[r].spectator_ids
                              = Append(Rooms[r].spectator_ids, p)
                     /\ Rooms'[r].player_ids = Rooms[r].player_ids]_vars

\* a spectator of a room with a game and free places asked to join and was
\* answered RoomFull
C19_Witness ==
    \E r \in DOMAIN Rooms, p \in Connected :
        /\ is_some(Rooms[r].game)
        /\ ~AtCapacity(Rooms[r])
        /\ contains(Rooms[r].spectator_ids, p)
        /\ ~contains(Rooms[r].player_ids, p)
        /\ Tx(p) = <<Error("RoomFull")>>

\* C20: add_player of an id already in the player list of a room with no
\* game succeeds and leaves the list unchanged, whatever the number of
\* players, and so the member's JoinRoom is answered RoomJoined; add_spectator
\* of an id already in the spectator list leaves that list unchanged.
C20_ReAddAlwaysSucceeds ==
    [][\A r \in DOMAIN Rooms :
         /\ \A p \in Connected, pw \in Passwords :
               (/\ is_none(Rooms[r].game)
                /\ contains(Rooms[r].player_ids, p)
                /\ check_password(Rooms[r], pw)
                /\ DoJoinRoom(p, r, pw)) =>
                  /\ add_player(Rooms[r], p) =
                        [room |-> Rooms[r], result |-> Ok(0)]
                  /\ Rooms'[r].player_ids = Rooms[r].player_ids
                  /\ Tx(p)'[1] = Msg("RoomJoined", r)
         /\ \A p \in Connected :
               (contains(Rooms[r].spectator_ids, p)
                 /\ DoSpectateRoom(p, r)) =>
                  /\ add_spectator(Rooms[r], p) = Rooms[r]
                  /\ Rooms'[r].spectator_ids = Rooms[r].spectator_ids]_vars

\* C20 amended: add_player of an id already in the player list of a room
\* with no game leaves the list unchanged; it succeeds (and the member's
\* JoinRoom is answered RoomJoined) when the room is below capacity and
\* fails with TooManyPlayers (answered RoomFull) when the room is at
\* capacity; add_spectator of an id already in the spectator list leaves
\* that list unchanged.
C20_ReAddKeepsList ==
    [][\A r \in DOMAIN Rooms :
         /\ \A p \in Connected, pw \in Passwords :
               (/\ is_none(Rooms[r].game)
                /\ contains(Rooms[r].player_ids, p)
                /\ check_password(Rooms[r], pw)
                /\ DoJoinRoom(p, r, pw)) =>
                  /\ add_player(Rooms[r], p) =
                        [room |-> Rooms[r],
                         result |-> IF AtCapacity(Rooms[r])
                                    THEN Err("TooManyPlayers") ELSE Ok(0)]
                  /\ Rooms'[r].player_ids = Rooms[r].player_ids
                  /\ Tx(p)'[1] = IF AtCapacity(Rooms[r])
                                 THEN Error("RoomFull")
                                 ELSE Msg("RoomJoined", r)
         /\ \A p \in Connected :
               (contains(Rooms[r].spectator_ids, p)
                 /\ DoSpectateRoom(p, r)) =>
                  /\ add_spectator(Rooms[r], p) = Rooms[r]
                  /\ Rooms'[r].spectator_ids = Rooms[r].spectator_ids]_vars

\* a member of a full room with no game asked to join it again and was
\* answered RoomFull
C20_Witness ==
    \E r \in DOMAIN Rooms, p \in Connected :
        /\ is_none(Rooms[r].game)
        /\ AtCapacity(Rooms[r])
        /\ contains(Rooms[r].player_ids, p)
        /\ Tx(p) = <<Error("RoomFull")>>

(***************************************************************************)
(* C21: remove_player takes the id out of the player list and out of the   *)
(* spectator list; when the id was the host and a player remains, the      *)
(* first remaining player becomes the host; when no player remains, the    *)
(* room has no host: host_id is not the departed id any more.  Stated on   *)
(* every LeaveRoom and every disconnect of a connection whose room is in   *)
(* the registry and stays there.                                           *)
(***************************************************************************)
InRoom(player_id, room_id) ==
    /\ player_id \in Connected
    /\ room_id \in DOMAIN Rooms
    /\ state.connections[player_id].room_id = Some(room_id)

C21_DepartedIsNotHost ==
    [][\A p \in Connected, r \in RoomIds :
          (InRoom(p, r) /\ (DoLeaveRoom(p) \/ DoDisconnect(p))
             /\ r \in DOMAIN Rooms') =>
             /\ ~contains(Rooms'[r].player_ids, p)
             /\ ~contains(Rooms'[r].spectator_ids, p)
             /\ (Rooms[r].host_id = p /\ Rooms'[r].player_ids # <<>>) =>
                    Rooms'[r].host_id = Rooms'[r].player_ids[1]
             /\ Rooms'[r].player_ids = <<>> => Rooms'[r].host_id # p]_vars

(***************************************************************************)
(* C22: empty rooms are collected and only empty rooms.  After every       *)
(* LeaveRoom and every disconnect the registry holds no room whose player  *)
(* list and spectator list are both empty; and a room leaves the registry  *)
(* only in such a step and only when nobody but the leaving id was in it.  *)
(***************************************************************************)
Leaves(player_id) == DoLeaveRoom(player_id) \/ DoDisconnect(player_id)

C22_OnlyEmptyRoomsCollected ==
    [][/\ \A p \in Connected :
             Leaves(p) => \A r \in DOMAIN Rooms' : ~is_empty(Rooms'[r])
       /\ \A r \in (DOMAIN Rooms) \ (DOMAIN Rooms') :
             \E p \in Connected :
                /\ InRoom(p, r)
                /\ Leaves(p)
                /\ remove_player(Rooms[r], p).player_ids = <<>>
                /\ remove_player(Rooms[r], p).spectator_ids = <<>>]_vars

\* a room was created, its last member has left it, and it has been collected
C22_Witness ==
    /\ uuids.room > 0
    /\ DOMAIN Rooms = {}
    /\ \E s \in DOMAIN tasks :
          /\ tasks[s].sends # <<>>
          /\ Head(tasks[s].sends).msg = Msg("RoomLeft", 0)

(***************************************************************************)
(* C30: StartGame creates a game only for the host of a room with at least *)
(* 2 players.  A StartGame of a connection that is in a room but is not    *)
(* its host is answered with Error InvalidAction, one of the host of a     *)
(* room with fewer than 2 players with Error NotEnoughPlayers; in both     *)
(* cases no room changes (so no game appears) and nobody else is sent      *)
(* anything (so no GameStarted).  A room's game changes only in a          *)
(* StartGame step of its host while it has 2 players or more.              *)
(***************************************************************************)
Refused(player_id, code) ==
    /\ Rooms' = Rooms
    /\ Tx(player_id)' = Append(Tx(player_id), Error(code))
    /\ \A q \in Connected \ {player_id} : Tx(q)' = Tx(q)

C30_StartGameByHostOfTwo ==
    [][/\ \A p \in Connected, r \in RoomIds :
             (InRoom(p, r) /\ DoStartGame(p)) =>
                /\ Rooms[r].host_id # p => Refused(p, "InvalidAction")
                /\ (Rooms[r].host_id = p /\ Len(Rooms[r].player_ids) < 2) =>
                       Refused(p, "NotEnoughPlayers")
       /\ \A r \in (DOMAIN Rooms) \cap (DOMAIN Rooms') :
             Rooms'[r].game # Rooms[r].game =>
                \E p \in Connected :
                   /\ InRoom(p, r)
                   /\ DoStartGame(p)
                   /\ Rooms[r].host_id = p
                   /\ Len(Rooms[r].player_ids) >= 2]_vars

\* a member that is not the host has asked to start a room of two players
\* and has its refusal, and the room has no game
C30_Witness ==
    \E r \in DOMAIN Rooms, p \in Connected :
       /\ InRoom(p, r)
       /\ Rooms[r].host_id # p
       /\ Len(Rooms[r].player_ids) >= 2
       /\ is_none(Rooms[r].game)
       /\ Tx(p) = <<Error("InvalidAction")>>

(***************************************************************************)
(* C24: a RollDice, HoldDice, ScoreCategory, JoinRoom or StartGame message *)
(* that the server does not act on (the handler reports no success and no  *)
(* room and no game changes) is answered with exactly one Error message,   *)
(* sent to the sender and to nobody else, and the handler returns with the *)
(* sender still registered.  Stated of every such message a registered     *)
(* connection can send in a state in which the server takes a message.     *)
(***************************************************************************)
Rejects(h) == ~h.result.ok /\ h.state.lobby = state.lobby

\* what the handlers make of the play and lobby messages of player_id
Handlings(player_id) ==
    {handle_RollDice(state, player_id, FiveOfAKind),
     handle_HoldDice(state, player_id, <<T, F, T, F, F>>),
     handle_StartGame(state, player_id)}
    \cup {handle_ScoreCategory(state, player_id, c) : c \in PlayCats}
    \cup {handle_JoinRoom(state, player_id, r, None) : r \in RoomIds}

OneError(h, player_id) ==
    /\ Len(h.sends) = 1
    /\ h.sends[1].to = <<player_id>>
    /\ h.sends[1].exclude = None
    /\ h.sends[1].msg.type = "Error"
    /\ Stuck(h.sends) = <<>>
    /\ player_id \in DOMAIN h.state.connections

C24_RejectionIsOneError ==
    (Quiet /\ Free) =>
       \A p \in Connected :
          \A h \in Handlings(p) : Rejects(h) => OneError(h, p)

(***************************************************************************)
(* C29: a connection whose spectator flag is set cannot roll, hold or      *)
(* score: whatever RollDice, HoldDice or ScoreCategory message it sends,   *)
(* no room and no game changes; and an id that is in a room as a spectator *)
(* and not as a player is not the current player of that room's game.      *)
(***************************************************************************)
PlayHandlings(player_id) ==
    {handle_RollDice(state, player_id, FiveOfAKind),
     handle_HoldDice(state, player_id, <<T, F, T, F, F>>)}
    \cup {handle_ScoreCategory(state, player_id, c) : c \in PlayCats}

SpectatorOnlyNotCurrent ==
    \A r \in DOMAIN Rooms :
       is_some(Rooms[r].game) =>
          \A k \in 1..Len(Rooms[r].spectator_ids) :
             LET id == Rooms[r].spectator_ids[k]
             IN  ~contains(Rooms[r].player_ids, id) =>
                    ~is_current_player(unwrap(Rooms[r].game), id)

C29_SpectatorFlagBarsPlay ==
    /\ (Quiet /\ Free) =>
          \A p \in Connected :
             state.connections[p].is_spectator =>
                \A h \in PlayHandlings(p) : h.state.lobby = state.lobby
    /\ SpectatorOnlyNotCurrent

(***************************************************************************)
(* C23: the first frame decides the handshake.  When it is not a Hello,    *)
(* the task writes HandshakeError (nothing else) and ends: the shared      *)
(* state does not change, so no connection is registered and no handler    *)
(* has run.  When it is a Hello, the first thing written to the socket is  *)
(* Welcome with an id no other task has and the registry does not know,    *)
(* and the connection is registered only afterwards: an id enters the      *)
(* registry only in the Register step of a task that has written Welcome   *)
(* with that id, and every registered id belongs to such a task.           *)
(***************************************************************************)
Socket(s) == tasks[s].socket

Registered(s) ==
    /\ is_some(tasks[s].player_id)
    /\ unwrap(tasks[s].player_id) \in Connected

Served ==
    {s \in DOMAIN tasks : tasks[s].pc \notin {"rejected", "closed"}}

RegistryWithinCap == Cardinality(Connected) <= state.max_connections

C28_NeverMoreThanCap ==
    /\ RegistryWithinCap
    /\ Cardinality(Served) <= state.max_connections

(***************************************************************************)
(* C26: no handler enqueues a message while it holds a guard of the room   *)
(* registry or of the connection registry: in every step in which a task   *)
(* makes a send (send_to_player or broadcast_to_list), the task holds no   *)
(* guard.                                                                  *)
(***************************************************************************)
C26_NoSendUnderGuard ==
    [][\A s \in DOMAIN tasks : SendNext(s) => tasks[s].held = {}]_vars

(***************************************************************************)
(* C25: when the read loop of a connection has ended, its cleanup          *)
(* eventually completes, and then its id is in the connection registry no  *)
(* more and in the player list and the spectator list of no room.          *)
(***************************************************************************)
Gone(id) ==
    /\ id \notin Connected
    /\ \A r \in DOMAIN Rooms :
          /\ ~contains(Rooms[r].player_ids, id)
          /\ ~contains(Rooms[r].spectator_ids, id)

CleanedUp(s) ==
    /\ s \in DOMAIN tasks
    /\ tasks[s].pc = "closed"
    /\ is_some(tasks[s].player_id)
    /\ Gone(unwrap(tasks[s].player_id))

C25_CleanupCompletes ==
    \A s \in 1..MaxSockets :
       (s \in DOMAIN tasks /\ tasks[s].pc = "cleanup") ~> CleanedUp(s)

(***************************************************************************)
(* C27: the order of delivery.  For every recipient, messages leave its    *)
(* outbound queue and reach its socket in the order they were enqueued,    *)
(* and only through the writer task of that connection: a queue changes    *)
(* only by a send that appends at its tail or by its writer taking its     *)
(* head, which is then the frame on the socket; after the handshake a      *)
(* socket is written by the writer only; every send of a handler appends   *)
(* its message at the tail of the queue of each recipient, the sends of a  *)
(* handler being made in their order; and a successful ScoreCategory sends *)
(* CategoryScored, TurnEnded, then TurnStarted (GameOver when the game has *)
(* finished), each to every member of the room.                            *)
(***************************************************************************)
RECURSIVE Copies(_, _)
Copies(msg, n) == IF n = 0 THEN <<>> ELSE <<msg>> \o Copies(msg, n - 1)

\* how many times a send enqueues its message for one connection
Times(send, id) ==
    IF Some(id) = send.exclude THEN 0
    ELSE Cardinality({i \in DOMAIN send.to : send.to[i] = id})

IsPrefix(q, r) == Len(q) <= Len(r) /\ SubSeq(r, 1, Len(q)) = q

WrittenBy(s) ==
    /\ Registered(s)
    /\ LET id == unwrap(tasks[s].player_id)
       IN  /\ Tx(id) # <<>>
           /\ Socket(s)' = Some(Head(Tx(id)))
           /\ id \in DOMAIN state'.connections
           /\ Tx(id)' = Tail(Tx(id))

QueueIsFifo ==
    \A id \in Connected :
       id \in DOMAIN state'.connections =>
          \/ IsPrefix(Tx(id), Tx(id)')
          \/ WrittenBy(TaskOf(id))

SocketOnlyByWriter ==
    \A s \in DOMAIN tasks :
       (Socket(s) # None /\ Socket(s)' # Socket(s)) => WrittenBy(s)

SendsInOrder ==
    \A s \in DOMAIN tasks :
       SendNext(s) =>
          /\ tasks'[s].sends = Tail(tasks[s].sends)
          /\ \A id \in Connected :
                Tx(id)' = Tx(id) \o Copies(Head(tasks[s].sends).msg,
                                           Times(Head(tasks[s].sends), id))

ScoredThenEndedThenStarted ==
    okScores' = okScores + 1 =>
       \E s \in DOMAIN tasks :
          /\ tasks[s].pc = "read" /\ tasks'[s].pc = "send"
          /\ LET id == unwrap(tasks[s].player_id)
                 room_id == unwrap(state.connections[id].room_id)
                 members == all_member_ids(Rooms[room_id])
                 after == unwrap(Rooms[room_id].game)'
                 sends == tasks'[s].sends
             IN  /\ Len(sends) = 3
                 /\ \A i \in 1..3 : /\ sends[i].to = members
                                    /\ sends[i].exclude = None
                 /\ sends[1].msg = Msg("CategoryScored", id)
                 /\ sends[2].msg = Msg("TurnEnded", id)
                 /\ IF after.phase = "Finished"
                    THEN sends[3].msg.type = "GameOver"
                    ELSE sends[3].msg =
                            Msg("TurnStarted", current_player(after).id)

C27_DeliveredInOrder ==
    [][/\ QueueIsFifo
       /\ SocketOnlyByWriter
       /\ SendsInOrder
       /\ ScoredThenEndedThenStarted]_vars

\* a player has scored, and the other member of the room has CategoryScored
\* on its socket and TurnEnded, then TurnStarted, in its queue
C27_Witness ==
    \E s \in DOMAIN tasks, t \in DOMAIN tasks :
       /\ s # t /\ Registered(s) /\ Registered(t)
       /\ okScores = 1
       /\ LET scorer == unwrap(tasks[s].player_id)
              member == unwrap(tasks[t].player_id)
          IN  /\ Socket(t) = Some(Msg("CategoryScored", scorer))
              /\ Tx(member) = <<Msg("TurnEnded", scorer),
                                Msg("TurnStarted", member)>>

(***************************************************************************)
(* Full games in which clients also call before the game has started and   *)
(* after it has finished: the handlers pass every RollDice, HoldDice and   *)
(* ScoreCategory to the game whatever its phase.                           *)
(***************************************************************************)
OutOfPlayRoll ==
    /\ game.phase # "Playing"
    /\ \E player_id \in Callers(game), draws \in RollOutcomes :
          DoRoll(player_id, draws)

OutOfPlayHold ==
    /\ game.phase # "Playing"
    /\ \E player_id \in Callers(game), held \in HoldMasks :
          DoHold(player_id, held)

OutOfPlayScore ==
    /\ game.phase # "Playing"
    /\ \E player_id \in Callers(game), category \in TriedCats :
          DoScore(player_id, category)

NextPhases == NextFull \/ OutOfPlayRoll \/ OutOfPlayHold \/ OutOfPlayScore

SpecPhases == Init /\ [][NextPhases]_vars

(***************************************************************************)
(* C32: the game phase only ever moves Lobby to Playing to Finished.  In   *)
(* Lobby and in Finished, roll_dice, hold_dice and score_category fail     *)
(* with GameNotInProgress for every caller and every input and leave the   *)
(* game unchanged; no step takes a Playing game back to Lobby or a         *)
(* Finished game to any other phase.                                       *)
(***************************************************************************)
NotInProgress(r, g) ==
    r.result = Err("GameNotInProgress") /\ r.game = g

RefusedOutOfPlay ==
    game.phase # "Playing" =>
       \A player_id \in Callers(game) :
          /\ \A draws \in RollOutcomes :
                NotInProgress(roll_dice(game, player_id, draws), game)
          /\ \A held \in HoldMasks :
                NotInProgress(hold_dice(game, player_id, held), game)
          /\ \A category \in Category :
                NotInProgress(score_category(game, player_id, category),
                              game)

PhaseMoves ==
    {<<"Lobby", "Lobby">>, <<"Lobby", "Playing">>, <<"Playing", "Playing">>,
     <<"Playing", "Finished">>, <<"Finished", "Finished">>}

C32_PhaseOnlyForward ==
    /\ []RefusedOutOfPlay
    /\ [][/\ <<game.phase, game'.phase>> \in PhaseMoves
          /\ (game.phase # "Playing"
              /\ last'.op \in {"roll_dice", "hold_dice", "score_category"})
                => /\ last'.result = Err("GameNotInProgress")
                   /\ game' = game]_vars

\* a finished game has been asked to score and has refused
C32_Witness ==
    /\ game.phase = "Finished"
    /\ last.op = "score_category"
    /\ last.result = Err("GameNotInProgress")

(***************************************************************************)
(* C39: in every reachable TurnState the phase and the roll counter agree: *)
(* rolls_used is 0 exactly in WaitingForRoll, 1 or 2 exactly in Rolling,   *)
(* which carries the same count, and MAX_ROLLS exactly in MustScore; it    *)
(* never exceeds MAX_ROLLS and phase Done is never reached.  A turn made   *)
(* by start or by advance_turn has rolls_used 0, no die held, and the id   *)
(* of the player that is then the current one.                             *)
(***************************************************************************)
PhaseAgrees(t) ==
    /\ t.rolls_used \in 0..MAX_ROLLS
    /\ t.phase.tag # "Done"
    /\ t.rolls_used = 0 <=> t.phase = WaitingForRoll
    /\ t.rolls_used \in 1..(MAX_ROLLS - 1) <=> t.phase.tag = "Rolling"
    /\ t.phase.tag = "Rolling" => t.phase = Rolling(t.rolls_used)
    /\ t.rolls_used = MAX_ROLLS <=> t.phase = MustScore

FreshTurn(g) ==
    LET t == unwrap(g.turn)
    IN  /\ t.rolls_used = 0
        /\ t.phase = WaitingForRoll
        /\ \A i \in 1..NUM_DICE : ~t.dice[i].held
        /\ t.player_id = current_player(g).id

TurnAgrees == is_some(game.turn) => PhaseAgrees(unwrap(game.turn))

C39_PhaseAndRollsAgree ==
    /\ []TurnAgrees
    /\ [][(/\ is_some(game'.turn)
           /\ \/ is_none(game.turn)
              \/ game'.current_player_index # game.current_player_index
              \/ game'.round # game.round)
             => FreshTurn(game')]_vars

\* a player has scored, and a later player of the game has used all its
\* rolls and must score
C39_Witness ==
    /\ okScores >= 1
    /\ is_some(game.turn)
    /\ unwrap(game.turn).rolls_used = MAX_ROLLS
    /\ unwrap(game.turn).phase = MustScore
    /\ unwrap(game.turn).player_id # game.players[1].id

(***************************************************************************)
(* C40: while the game is Playing with round r and current player index i, *)
(* every player at an index below i has exactly r categories recorded and  *)
(* every player at index i or above exactly r - 1; hence r is between 1    *)
(* and total_rounds while Playing, and no player ever holds more recorded  *)
(* categories than there are categories.                                   *)
(***************************************************************************)
Recorded(g, k) == Cardinality(DOMAIN g.players[k].scorecard.scores)

RoundCountsTurns(g) ==
    /\ g.round \in 1..g.total_rounds
    /\ g.current_player_index \in 0..(Len(g.players) - 1)
    /\ \A k \in 1..Len(g.players) :
          Recorded(g, k) = IF k - 1 < g.current_player_index
                           THEN g.round ELSE g.round - 1

C40_RecordedFollowsRound ==
    /\ game.phase = "Playing" => RoundCountsTurns(game)
    /\ \A k \in 1..Len(game.players) :
          Recorded(game, k) <= Cardinality(Category)

\* the last round of a game of several players: the first player has filled
\* its card, the current one has one box left
C40_Witness ==
    /\ game.phase = "Playing"
    /\ game.round = game.total_rounds
    /\ game.current_player_index >= 1
    /\ Recorded(game, 1) = Cardinality(Category)
    /\ Recorded(game, game.current_player_index + 1) = Cardinality(Category) - 1

(***************************************************************************)
(* C34: every LeaveRoom of a connection that is in a room is eventually    *)
(* answered: its handler makes all its sends, RoomLeft to the sender being *)
(* the last, returns to the read loop and holds no guard of the room       *)
(* registry or the connection registry any more; and whenever a task holds *)
(* a guard, it eventually holds none.                                      *)
(***************************************************************************)
LeavingRoom(s) ==
    /\ s \in DOMAIN tasks
    /\ tasks[s].pc = "send"
    /\ tasks[s].sends # <<>>
    /\ tasks[s].sends[Len(tasks[s].sends)].msg = Msg("RoomLeft", 0)

Answered(s) ==
    /\ s \in DOMAIN tasks
    /\ tasks[s].pc = "read"
    /\ tasks[s].sends = <<>>
    /\ tasks[s].held = {}

C34_LeaveRoomIsAnswered ==
    /\ \A s \in 1..MaxSockets : LeavingRoom(s) ~> Answered(s)
    /\ ~Free ~> Free

(***************************************************************************)
(* C33: a room owns at most one game in progress.  When the game of a room *)
(* is in phase Playing, a StartGame message from any connection, the host  *)
(* included, leaves that game as it is: scorecards, round, current player  *)
(* and turn are unchanged.                                                 *)
(***************************************************************************)
InProgress(room) ==
    is_some(room.game) /\ unwrap(room.game).phase = "Playing"

C33_PlayingGameIsKept ==
    (Quiet /\ Free) =>
       \A p \in Connected, r \in DOMAIN Rooms :
          InProgress(Rooms[r]) =>
             handle_StartGame(state, p).state.lobby.rooms[r].game
                = Rooms[r].game

(***************************************************************************)
(* C35: in every reachable state, a room whose player list is not empty    *)
(* has a host that is one of its players.                                  *)
(***************************************************************************)
C35_HostIsAPlayer ==
    \A r \in DOMAIN Rooms :
       Rooms[r].player_ids # <<>> =>
          contains(Rooms[r].player_ids, Rooms[r].host_id)

\* a player has left a room that others of its players stay in (PlayerLeft
\* has been sent, RoomLeft has not), and the host is the first of those
C35_Witness ==
    \E r \in DOMAIN Rooms, s \in DOMAIN tasks :
       /\ tasks[s].sends # <<>>
       /\ Head(tasks[s].sends).msg = Msg("RoomLeft", 0)
       /\ Rooms[r].player_ids # <<>>
       /\ Rooms[r].host_id = Rooms[r].player_ids[1]
       /\ ~contains(all_member_ids(Rooms[r]), unwrap(tasks[s].player_id))

(***************************************************************************)
(* C38: while the game of a room is in phase Playing, its current player   *)
(* is in the player list of the room and has a registered connection, also *)
(* after players have left or disconnected during the game.                *)
(***************************************************************************)
C38_CurrentPlayerIsPresent ==
    \A r \in DOMAIN Rooms :
       InProgress(Rooms[r]) =>
          LET id == current_player(unwrap(Rooms[r].game)).id
          IN  /\ contains(Rooms[r].player_ids, id)
              /\ id \in Connected

(***************************************************************************)
(* The server with several rooms: a connection may create or join a room   *)
(* while it is in another one, games are started and played in each room.  *)
(* Rooms are open to 6 players and have no password.                       *)
(***************************************************************************)
OpenAnother ==
    /\ Quiet /\ Free
    /\ uuids.room < TwoRooms
    /\ \E player_id \in Connected : DoCreateRoom(player_id, 7, None)

EnterAny ==
    /\ Quiet /\ Free
    /\ \E player_id \in Connected, room_id \in 1..TwoRooms :
          DoJoinRoom(player_id, room_id, None)

ScoreInRooms ==
    /\ Quiet /\ Free
    /\ okScores < TwoRooms
    /\ \E player_id \in Connected : DoScoreCategory(player_id, "Chance")

NextRooms ==
    \/ Hello \/ OpenAnother \/ EnterAny \/ StartGame \/ RollDiceMsg
    \/ ScoreInRooms \/ WriteTask

SpecRooms == InitServer /\ [][NextRooms]_vars

(***************************************************************************)
(* C36: room membership and the connection registry agree.  Every id in    *)
(* the player list or the spectator list of a room has a registered        *)
(* connection whose room_id is that room; so no id is a member of two      *)
(* rooms, and no room keeps the id of a connection that has been removed.  *)
(***************************************************************************)
C36_MembersAreInTheirRoom ==
    \A r \in DOMAIN Rooms :
       \A k \in DOMAIN all_member_ids(Rooms[r]) :
          LET id == all_member_ids(Rooms[r])[k]
          IN  /\ id \in Connected
              /\ state.connections[id].room_id = Some(r)

(***************************************************************************)
(* C31: ScoreCategory requests of connections in two different rooms do    *)
(* not interfere.  Each changes nothing but the game of its own room; what *)
(* the one is answered does not depend on whether the other has been       *)
(* handled before it, so both are applied; and handling them in either     *)
(* order leaves the same rooms.                                            *)
(***************************************************************************)
OwnRoomOnly(h, room_id) ==
    /\ DOMAIN h.state.lobby.rooms = DOMAIN Rooms
    /\ \A r \in DOMAIN Rooms :
          IF r = room_id
          THEN [h.state.lobby.rooms[r] EXCEPT !.game = None]
                  = [Rooms[r] EXCEPT !.game = None]
          ELSE h.state.lobby.rooms[r] = Rooms[r]

Apart(p, q) ==
    /\ p # q
    /\ is_some(state.connections[p].room_id)
    /\ is_some(state.connections[q].room_id)
    /\ state.connections[p].room_id # state.connections[q].room_id

C31_ScoresInTwoRoomsCommute ==
    (Quiet /\ Free) =>
       \A p \in Connected, q \in Connected :
          Apart(p, q) =>
             LET hp == handle_ScoreCategory(state, p, "Chance")
                 hq == handle_ScoreCategory(state, q, "Chance")
                 hpq == handle_ScoreCategory(hp.state, q, "Chance")
                 hqp == handle_ScoreCategory(hq.state, p, "Chance")
             IN  /\ OwnRoomOnly(hp, unwrap(state.connections[p].room_id))
                 /\ hpq.result = hq.result
                 /\ hqp.result = hp.result
                 /\ hpq.state.lobby = hqp.state.lobby

\* both rooms have a game in which the first player has scored
C31_Witness ==
    /\ okScores = TwoRooms
    /\ DOMAIN Rooms = 1..TwoRooms
    /\ \A r \in DOMAIN Rooms :
          /\ is_some(Rooms[r].game)
          /\ Recorded(unwrap(Rooms[r].game), 1) = 1

(***************************************************************************)
(* C37: every member of a room gets the game events of the room in the     *)
(* order in which the changes were made to the game.  A player can roll    *)
(* only after the score of the player before it has been applied, so no    *)
(* queue holds DiceRolled of a player while the TurnStarted that announces *)
(* the turn of that player is still to be enqueued to that recipient.      *)
(***************************************************************************)
Holds(id, msg) == \E j \in DOMAIN Tx(id) : Tx(id)[j] = msg

C37_EventsInOrderOfChanges ==
    \A s \in DOMAIN tasks :
       \A i \in DOMAIN tasks[s].sends :
          LET send == tasks[s].sends[i]
          IN  send.msg.type = "TurnStarted" =>
                 \A k \in DOMAIN send.to :
                    send.to[k] \in Connected =>
                       ~Holds(send.to[k], Msg("DiceRolled", send.msg.id))

====
